---- MODULE Spec2Model ----
(***************************************************************************)
(* ATSEP Toolbox: the Vincenty geodesy module (calculateDistance,          *)
(* calculateDestination) and the QNH module (calculate).                   *)
(*                                                                         *)
(* JavaScript numbers are IEEE-754 binary64.  They are modelled by a       *)
(* binary floating-point format of the same structure and a smaller size:  *)
(* a significand of P bits, exponents EMin..EMax, gradual underflow,       *)
(* round-to-nearest-even, NaN and the two infinities.  A number is the     *)
(* record [k, m, e]: k = "fin" is the value m * 2^e, k = "inf" is the      *)
(* infinity of sign m, k = "nan" is NaN.  The sign of zero is not kept.    *)
(***************************************************************************)
EXTENDS Integers, Sequences, FiniteSets, TLC

\* Significand bits and largest exponent of the number format.
P == 11
EMax == 64
EMin == -EMax

NaN == [k |-> "nan", m |-> 0, e |-> 0]
\* A declared and never assigned variable; arithmetic converts it to NaN.
Undefined == [k |-> "nan", m |-> 0, e |-> 1]
Zero == [k |-> "fin", m |-> 0, e |-> 0]
Inf(s) == [k |-> "inf", m |-> s, e |-> 0]

Max(a, b) == IF a >= b THEN a ELSE b
Sgn(n) == IF n > 0 THEN 1 ELSE IF n < 0 THEN -1 ELSE 0
AbsInt(n) == IF n < 0 THEN -n ELSE n

\* Number of bits of the natural number n < 2^31.
BitLen(n) ==
    IF n < 2^16
    THEN IF n < 2^8
         THEN IF n < 2^4
              THEN IF n < 2^2 THEN (IF n < 1 THEN 0 ELSE IF n < 2 THEN 1 ELSE 2)
                              ELSE (IF n < 2^3 THEN 3 ELSE 4)
              ELSE IF n < 2^6 THEN (IF n < 2^5 THEN 5 ELSE 6)
                              ELSE (IF n < 2^7 THEN 7 ELSE 8)
         ELSE IF n < 2^12
              THEN IF n < 2^10 THEN (IF n < 2^9 THEN 9 ELSE 10)
                               ELSE (IF n < 2^11 THEN 11 ELSE 12)
              ELSE IF n < 2^14 THEN (IF n < 2^13 THEN 13 ELSE 14)
                               ELSE (IF n < 2^15 THEN 15 ELSE 16)
    ELSE IF n < 2^24
         THEN IF n < 2^20
              THEN IF n < 2^18 THEN (IF n < 2^17 THEN 17 ELSE 18)
                               ELSE (IF n < 2^19 THEN 19 ELSE 20)
              ELSE IF n < 2^22 THEN (IF n < 2^21 THEN 21 ELSE 22)
                               ELSE (IF n < 2^23 THEN 23 ELSE 24)
         ELSE IF n < 2^28
              THEN IF n < 2^26 THEN (IF n < 2^25 THEN 25 ELSE 26)
                               ELSE (IF n < 2^27 THEN 27 ELSE 28)
              ELSE IF n < 2^30 THEN (IF n < 2^29 THEN 29 ELSE 30) ELSE 31

\* The number of sign s, significand m and exponent e; overflow gives infinity.
Pack(s, m, e) == IF e > EMax THEN Inf(s) ELSE [k |-> "fin", m |-> s * m, e |-> e]

\* The rounded significand q may have grown to P + 1 bits or shrunk to zero.
RoundCarry(s, q, e) ==
    IF q = 0 THEN Zero
    ELSE IF q = 2^P THEN Pack(s, 2^(P - 1), e + 1)
    ELSE Pack(s, q, e)

\* Quotient q and remainder r of the significand by 2 * half: ties to even.
RoundQuot(s, q, r, half, e) ==
    RoundCarry(s, IF r > half \/ (r = half /\ q % 2 = 1) THEN q + 1 ELSE q, e)

\* A has n bits, of which sh are to be dropped (sh <= 0: none).
RoundShift(s, A, n, E, sh) ==
    IF sh <= 0 THEN Pack(s, A * 2^(-sh), E + sh)
    ELSE IF sh > n THEN Zero
    ELSE RoundQuot(s, A \div 2^sh, A % 2^sh, 2^(sh - 1), E + sh)

RoundBits(s, A, n, E) == RoundShift(s, A, n, E, Max(n - P, EMin - E))

\* The number nearest to M * 2^E (ties to even), |M| < 2^30.  An odd M whose
\* last bit stands for discarded lower bits rounds as the exact value would.
FRound(M, E) ==
    IF M = 0 THEN Zero ELSE RoundBits(Sgn(M), AbsInt(M), BitLen(AbsInt(M)), E)

\* An integer literal or integer value, |n| < 2^30.
FromInt(n) == FRound(n, 0)

IsNaN(x) == x.k = "nan"
IsFinite(x) == x.k = "fin"
FNeg(x) == IF x.k = "nan" THEN NaN ELSE [x EXCEPT !.m = -x.m]
MathAbs(x) == IF x.k = "nan" THEN NaN ELSE [x EXCEPT !.m = AbsInt(x.m)]

\* hi + lo for finite non-zero numbers with hi.e >= lo.e
AddAligned(hi, lo) ==
    IF hi.e - lo.e > P + 2 THEN hi
    ELSE FRound(hi.m * 2^(hi.e - lo.e) + lo.m, lo.e)

\* x + y
FAdd(x, y) ==
    IF x.k = "nan" \/ y.k = "nan" THEN NaN
    ELSE IF x.k = "inf" THEN (IF y.k = "inf" /\ y.m # x.m THEN NaN ELSE x)
    ELSE IF y.k = "inf" THEN y
    ELSE IF x.m = 0 THEN y
    ELSE IF y.m = 0 THEN x
    ELSE IF x.e >= y.e THEN AddAligned(x, y)
    ELSE AddAligned(y, x)

\* x - y
FSub(x, y) == FAdd(x, FNeg(y))

\* x * y
FMul(x, y) ==
    IF x.k = "nan" \/ y.k = "nan" THEN NaN
    ELSE IF x.k = "inf" \/ y.k = "inf"
         THEN (IF x.m = 0 \/ y.m = 0 THEN NaN ELSE Inf(Sgn(x.m) * Sgn(y.m)))
    ELSE FRound(x.m * y.m, x.e + y.e)

\* x * x
Sq(x) == FMul(x, x)

\* The significand of a finite non-zero number scaled to exactly P bits.
NormM(x) == x.m * 2^(P - BitLen(AbsInt(x.m)))
NormE(x) == x.e - (P - BitLen(AbsInt(x.m)))

\* s * N / D * 2^e, the quotient kept with a sticky last bit
DivQuot(s, N, D, e) == FRound(s * (2 * (N \div D) + (IF N % D = 0 THEN 0 ELSE 1)), e)

\* x / y
FDiv(x, y) ==
    IF x.k = "nan" \/ y.k = "nan" THEN NaN
    ELSE IF x.k = "inf"
         THEN (IF y.k = "inf" THEN NaN ELSE Inf(x.m * (IF y.m >= 0 THEN 1 ELSE -1)))
    ELSE IF y.k = "inf" THEN Zero
    ELSE IF y.m = 0 THEN (IF x.m = 0 THEN NaN ELSE Inf(Sgn(x.m)))
    ELSE IF x.m = 0 THEN Zero
    ELSE DivQuot(Sgn(x.m) * Sgn(y.m), AbsInt(NormM(x)) * 2^(P + 2), AbsInt(NormM(y)),
                 NormE(x) - NormE(y) - (P + 2) - 1)

\* Largest q in lo..hi-1 with q*q <= n (lo*lo <= n < hi*hi).
RECURSIVE ISqrt(_, _, _)
ISqrt(n, lo, hi) ==
    IF hi - lo <= 1 THEN lo
    ELSE IF ((lo + hi) \div 2) * ((lo + hi) \div 2) <= n
         THEN ISqrt(n, (lo + hi) \div 2, hi)
         ELSE ISqrt(n, lo, (lo + hi) \div 2)

\* The root q of R with a sticky last bit, scaled by 2^e
SqrtRoot(R, q, e) == FRound(2 * q + (IF q * q = R THEN 0 ELSE 1), e)

\* The root of R, the significand scaled to make the exponent even, times 2^e
SqrtScaled(R, e) == SqrtRoot(R, ISqrt(R, 0, 2^15), e)

\* Math.sqrt(x)
MathSqrt(x) ==
    IF x.k = "nan" \/ x.m < 0 THEN NaN
    ELSE IF x.k = "inf" \/ x.m = 0 THEN x
    ELSE IF (NormE(x) - (P + 2)) % 2 = 0
         THEN SqrtScaled(NormM(x) * 2^(P + 2), (NormE(x) - (P + 2)) \div 2 - 1)
         ELSE SqrtScaled(NormM(x) * 2^(P + 3), (NormE(x) - (P + 3)) \div 2 - 1)

\* x < y
FLt(x, y) ==
    IF x.k = "nan" \/ y.k = "nan" THEN FALSE
    ELSE IF x.k = "inf" THEN x.m < 0 /\ ~(y.k = "inf" /\ y.m < 0)
    ELSE IF y.k = "inf" THEN y.m > 0
    ELSE IF x.m = 0 \/ y.m = 0 \/ (x.m > 0) # (y.m > 0) THEN x.m < y.m
    ELSE IF x.m > 0 THEN x.e < y.e \/ (x.e = y.e /\ x.m < y.m)
    ELSE x.e > y.e \/ (x.e = y.e /\ x.m < y.m)

\* x > y, x <= y, x === y
FGt(x, y) == FLt(y, x)
FLe(x, y) == x.k # "nan" /\ y.k # "nan" /\ ~FLt(y, x)
FEq(x, y) == x.k # "nan" /\ x = y

(***************************************************************************)
(* The Math library.  The trigonometric functions reduce the argument by   *)
(* multiples of pi/2 held in two parts (201/128 and the rest) and          *)
(* evaluate a polynomial on the reduced argument, as a libm does, so that  *)
(* sin(0) = 0, cos(0) = 1 and sin(Math.PI) is the small positive number    *)
(* pi - Math.PI.  Decimal literals are given as an integer and an exponent *)
(* of two with 30 significant bits and rounded by FRound.                  *)
(***************************************************************************)
MathPI == FRound(843314857, -28)
PiOver2 == FRound(843314857, -29)
PiOver4 == FRound(843314857, -30)
Ln2 == FRound(744261117, -30)
One == FromInt(1)

\* The integer value of an integer-valued finite number (|value| < 2^30).
IntVal(x) == IF x.e >= 0 THEN x.m * 2^(x.e) ELSE x.m \div 2^(-x.e)

\* The integer nearest to a finite x, as a number (ties away from zero).
NearestInt(x) ==
    IF x.m = 0 \/ x.e >= 0 THEN x
    ELSE IF -x.e > P + 1 THEN Zero
    ELSE FromInt(Sgn(x.m) * ((AbsInt(x.m) + 2^(-x.e - 1)) \div 2^(-x.e)))

\* x = r + n * pi/2 with |r| about pi/4 at most; n is kept modulo 4.
RECURSIVE Reduce(_, _)
\* x less kf * pi/2, the multiple taken in two parts: 201/128 and pi/2 - 201/128
ReduceBy(x, n, kf) ==
    Reduce(FSub(FSub(x, FMul(kf, FRound(201, -7))), FMul(kf, FRound(1063946373, -41))),
           (n + (IF kf.e >= 2 THEN 0 ELSE IntVal(kf) % 4)) % 4)

\* Arguments up to 0.8 are not reduced; kf is x * 2/pi to the nearest integer
Reduce(x, n) ==
    IF ~FLt(FRound(858993459, -30), MathAbs(x)) THEN [r |-> x, n |-> n]
    ELSE ReduceBy(x, n, NearestInt(FMul(x, FRound(683565275, -30))))

\* r - r^3/6 + r^5/120 with z = r^2
SinPoly(r, z) ==
    FAdd(r, FMul(FMul(r, z), FAdd(FRound(-715827883, -32), FMul(z, FRound(572662307, -36)))))
\* 1 - z/2 + z^2/24 - z^3/720
CosPoly(z) ==
    FAdd(One, FMul(z, FAdd(FRound(-1, -1),
        FMul(z, FAdd(FRound(715827883, -34), FMul(z, FRound(-763549741, -39)))))))
KernelSin(r) == SinPoly(r, Sq(r))
KernelCos(r) == CosPoly(Sq(r))

SinQuadrant(q) ==
    CASE q.n = 0 -> KernelSin(q.r)
      [] q.n = 1 -> KernelCos(q.r)
      [] q.n = 2 -> FNeg(KernelSin(q.r))
      [] OTHER   -> FNeg(KernelCos(q.r))

CosQuadrant(q) ==
    CASE q.n = 0 -> KernelCos(q.r)
      [] q.n = 1 -> FNeg(KernelSin(q.r))
      [] q.n = 2 -> FNeg(KernelCos(q.r))
      [] OTHER   -> KernelSin(q.r)

TanQuadrant(q) ==
    IF q.n % 2 = 0 THEN FDiv(KernelSin(q.r), KernelCos(q.r))
    ELSE FNeg(FDiv(KernelCos(q.r), KernelSin(q.r)))

\* Math.sin(x), Math.cos(x), Math.tan(x)
MathSin(x) == IF x.k # "fin" THEN NaN ELSE SinQuadrant(Reduce(x, 0))
MathCos(x) == IF x.k # "fin" THEN NaN ELSE CosQuadrant(Reduce(x, 0))
MathTan(x) == IF x.k # "fin" THEN NaN ELSE TanQuadrant(Reduce(x, 0))

\* u - u^3/3 + u^5/5 - u^7/7 + u^9/9 with z = u^2
AtanPoly(u, z) ==
    FAdd(u, FMul(FMul(u, z),
        FAdd(FRound(-715827883, -31),
             FMul(z, FAdd(FRound(858993459, -32),
                          FMul(z, FAdd(FRound(-613566757, -32),
                                       FMul(z, FRound(954437177, -33)))))))))
AtanSeries(u) == AtanPoly(u, Sq(u))

\* atan(t) for 0 <= t <= 1: above sqrt(2) - 1 as pi/4 + atan((t - 1) / (t + 1))
KernelAtan(t) ==
    IF FLt(FRound(889516851, -31), t)
    THEN FAdd(PiOver4, AtanSeries(FDiv(FSub(t, One), FAdd(t, One))))
    ELSE FAdd(Zero, AtanSeries(t))

\* atan2(ay, ax) for finite ay > 0, ax > 0
AtanQuot(ay, ax) ==
    IF FLe(ay, ax) THEN KernelAtan(FDiv(ay, ax))
    ELSE FSub(PiOver2, KernelAtan(FDiv(ax, ay)))

\* atan2(|y|, x) for y # 0, x # 0
AtanUpper(ay, x) ==
    IF x.k = "inf" /\ ay.k = "inf"
    THEN (IF x.m > 0 THEN PiOver4 ELSE FSub(MathPI, PiOver4))
    ELSE IF x.k = "inf" THEN (IF x.m > 0 THEN Zero ELSE MathPI)
    ELSE IF ay.k = "inf" THEN PiOver2
    ELSE IF x.m < 0 THEN FSub(MathPI, AtanQuot(ay, MathAbs(x)))
    ELSE AtanQuot(ay, x)

\* Math.atan2(y, x)
MathAtan2(y, x) ==
    IF x.k = "nan" \/ y.k = "nan" THEN NaN
    ELSE IF y.k = "fin" /\ y.m = 0 THEN (IF x.m >= 0 THEN Zero ELSE MathPI)
    ELSE IF x.k = "fin" /\ x.m = 0 THEN (IF y.m > 0 THEN PiOver2 ELSE FNeg(PiOver2))
    ELSE IF y.m > 0 THEN AtanUpper(y, x)
    ELSE FNeg(AtanUpper(MathAbs(y), x))

\* (2^d * r) mod b, by d doublings
RECURSIVE DoubleMod(_, _, _)
DoubleMod(r, d, b) == IF d = 0 THEN r ELSE DoubleMod((2 * r) % b, d - 1, b)

\* x % y : the remainder of the truncating division, with the sign of x; exact.
FMod(x, y) ==
    IF x.k # "fin" \/ y.k = "nan" THEN NaN
    ELSE IF y.k = "inf" THEN x
    ELSE IF y.m = 0 THEN NaN
    ELSE IF x.m = 0 THEN Zero
    ELSE IF x.e >= y.e
         THEN FRound(Sgn(x.m) * DoubleMod(AbsInt(x.m) % AbsInt(y.m), x.e - y.e, AbsInt(y.m)),
                     y.e)
    ELSE IF y.e - x.e > P THEN x
    ELSE FRound(Sgn(x.m) * (AbsInt(x.m) % (AbsInt(y.m) * 2^(y.e - x.e))), x.e)

\* Math.round(x): the integer nearest to x, ties towards +Infinity
MathRound(x) ==
    IF x.k # "fin" \/ x.m = 0 \/ x.e >= 0 THEN x
    ELSE IF -x.e > P + 1 THEN Zero
    ELSE FromInt((2 * x.m + 2^(-x.e)) \div 2^(-x.e + 1))

\* x * 2^n for a finite x
Scale2(x, n) ==
    IF x.m = 0 THEN x
    ELSE IF n > 4 * EMax THEN Inf(Sgn(x.m))
    ELSE IF n < -4 * EMax THEN Zero
    ELSE FRound(x.m, x.e + n)

\* kk * ln 2 + 2 * (u + u^3/3 + u^5/5 + u^7/7) with z = u^2
LogPoly(u, z, kk) ==
    FAdd(FMul(FromInt(kk), Ln2),
         FMul(FromInt(2),
              FAdd(u, FMul(FMul(u, z),
                  FAdd(FRound(715827883, -31),
                       FMul(z, FAdd(FRound(858993459, -32),
                                    FMul(z, FRound(613566757, -32)))))))))
LogSeries(u, kk) == LogPoly(u, Sq(u), kk)
\* ln(t * 2^kk) for t in (sqrt(1/2), sqrt(2)]
LogReduced(t, kk) == LogSeries(FDiv(FSub(t, One), FAdd(t, One)), kk)

\* ln(x) for a finite x > 0: the significand is halved when above sqrt(2)
MathLog(x) ==
    IF FLt(FRound(759250125, -29), [k |-> "fin", m |-> NormM(x), e |-> 1 - P])
    THEN LogReduced([k |-> "fin", m |-> NormM(x), e |-> -P], NormE(x) + P)
    ELSE LogReduced([k |-> "fin", m |-> NormM(x), e |-> 1 - P], NormE(x) + P - 1)

\* 1 + r + r^2/2 + r^3/6 + r^4/24 + r^5/120
ExpPoly(r) ==
    FAdd(One, FMul(r, FAdd(One, FMul(r, FAdd(FRound(1, -1),
        FMul(r, FAdd(FRound(715827883, -32),
                     FMul(r, FAdd(FRound(715827883, -34),
                                  FMul(r, FRound(572662307, -36)))))))))))
\* e^z = 2^kf * e^(z - kf * ln 2), kf being z / ln 2 to the nearest integer
ExpBy(z, kf) ==
    IF kf.e > 8 THEN (IF kf.m > 0 THEN Inf(1) ELSE Zero)
    ELSE Scale2(ExpPoly(FSub(z, FMul(kf, Ln2))), IntVal(kf))

\* e^z
MathExp(z) ==
    IF z.k = "nan" THEN NaN
    ELSE IF z.k = "inf" THEN (IF z.m > 0 THEN z ELSE Zero)
    ELSE ExpBy(z, NearestInt(FMul(z, FRound(774541003, -29))))

\* x ** y (the exponent is never a negative-base integer power in this code)
MathPow(x, y) ==
    IF x.k = "nan" \/ y.k = "nan" THEN NaN
    ELSE IF y.k = "fin" /\ y.m = 0 THEN One
    ELSE IF x = One THEN One
    ELSE IF x.m < 0 THEN NaN
    ELSE IF x.m = 0 THEN (IF y.m > 0 THEN Zero ELSE Inf(1))
    ELSE IF x.k = "inf" THEN (IF y.m > 0 THEN x ELSE Zero)
    ELSE IF y.k = "inf" THEN (IF FLt(One, x) = (y.m > 0) THEN Inf(1) ELSE Zero)
    ELSE MathExp(FMul(y, MathLog(x)))

(***************************************************************************)
(* constants.js, which both modules read.                                  *)
(***************************************************************************)
MAX_ITERATIONS == 100

WGS84_A == FromInt(6378137)
WGS84_B == FRound(813664297, -7)                    \* 6356752.314245
WGS84_F == FDiv(One, FRound(625490733, -21))        \* 1 / 298.257223563
CONVERGENCE_THRESHOLD == FRound(590295811, -69)     \* 1e-12
\* VINCENTY_A_DENOM, <<VINCENTY_A_C1, ..., VINCENTY_A_C4>> and the same for B
A_DENOM == FromInt(16384)
A_C == <<FromInt(4096), FromInt(-768), FromInt(320), FromInt(-175)>>
B_DENOM == FromInt(1024)
B_C == <<FromInt(256), FromInt(-128), FromInt(74), FromInt(-47)>>

INHG_TO_HPA == FRound(568141797, -24)               \* 33.86389
FEET_TO_METERS == FRound(654553015, -31)            \* 0.3048
STANDARD_PRESSURE_HPA == FRound(4053, -2)           \* 1013.25
STANDARD_TEMP_K == FRound(604294349, -21)           \* 288.15
TEMP_LAPSE_RATE == FRound(893353197, -37)           \* 0.0065
GRAVITY == FRound(658113141, -26)                   \* 9.80665
GAS_CONSTANT_DRY_AIR == FRound(601993501, -21)      \* 287.05287
PRESSURE_LIMITS_HPA ==
    [hardMin |-> FromInt(850), hardMax |-> FromInt(1100),
     warningMin |-> FromInt(920), warningMax |-> FromInt(1060)]

ERROR_MESSAGES ==
    [INVALID_PRESSURE |-> "Please enter a valid positive pressure value.",
     PRESSURE_OUT_OF_RANGE |-> "Pressure outside realistic limits (850-1100 hPa).",
     ANTIPODAL_POINTS |->
         "Calculation failed: Points are nearly antipodal (opposite sides of Earth).",
     CONVERGENCE_FAILED |-> "Calculation failed: Formula did not converge."]

(***************************************************************************)
(* Vincenty module: helpers and the formulas both directions share.        *)
(***************************************************************************)
toRad(d) == FDiv(FMul(d, MathPI), FromInt(180))
toDeg(r) == FDiv(FMul(r, FromInt(180)), MathPI)

\* tanU = (1 - f) * Math.tan(phi)
TanU(phi) == FMul(FSub(One, WGS84_F), MathTan(phi))
\* cosU = 1 / Math.sqrt(1 + tanU * tanU)
CosU(tanU) == FDiv(One, MathSqrt(FAdd(One, FMul(tanU, tanU))))
\* sinU = tanU * cosU
ReducedRec(tanU, cosU) == [tanU |-> tanU, cosU |-> cosU, sinU |-> FMul(tanU, cosU)]
ReducedOf(tanU) == ReducedRec(tanU, CosU(tanU))
\* The reduced latitude of phi
ReducedLat(phi) == ReducedOf(TanU(phi))

\* uSq = cosSqAlpha * (a * a - b * b) / (b * b)
USq(cosSqAlpha) ==
    FDiv(FMul(cosSqAlpha, FSub(FMul(WGS84_A, WGS84_A), FMul(WGS84_B, WGS84_B))),
         FMul(WGS84_B, WGS84_B))

\* A = 1 + uSq / A_DENOM * (A_C1 + uSq * (A_C2 + uSq * (A_C3 + A_C4 * uSq)))
ACoeff(uSq) ==
    FAdd(One,
         FMul(FDiv(uSq, A_DENOM),
              FAdd(A_C[1],
                   FMul(uSq, FAdd(A_C[2],
                                  FMul(uSq, FAdd(A_C[3], FMul(A_C[4], uSq))))))))

\* B = uSq / B_DENOM * (B_C1 + uSq * (B_C2 + uSq * (B_C3 + B_C4 * uSq)))
BCoeff(uSq) ==
    FMul(FDiv(uSq, B_DENOM),
         FAdd(B_C[1],
              FMul(uSq, FAdd(B_C[2],
                             FMul(uSq, FAdd(B_C[3], FMul(B_C[4], uSq)))))))

\* n + k * x * x, for -1 + 2 * x * x and -3 + 4 * x * x
PlusTimesSq(n, k, x) == FAdd(FromInt(n), FMul(FMul(FromInt(k), x), x))

\* B * sinSigma * (cos2SigmaM + B / 4 * (cosSigma * (-1 + 2 * cos2SigmaM * cos2SigmaM) -
\*     B / 6 * cos2SigmaM * (-3 + 4 * sinSigma * sinSigma) * (-3 + 4 * cos2SigmaM * cos2SigmaM)))
DeltaSigma(B, sinSigma, cosSigma, cos2SigmaM) ==
    FMul(FMul(B, sinSigma),
         FAdd(cos2SigmaM,
              FMul(FDiv(B, FromInt(4)),
                   FSub(FMul(cosSigma, PlusTimesSq(-1, 2, cos2SigmaM)),
                        FMul(FMul(FMul(FDiv(B, FromInt(6)), cos2SigmaM),
                                  PlusTimesSq(-3, 4, sinSigma)),
                             PlusTimesSq(-3, 4, cos2SigmaM))))))

\* C = f / 16 * cosSqAlpha * (4 + f * (4 - 3 * cosSqAlpha))
CCoeff(cosSqAlpha) ==
    FMul(FMul(FDiv(WGS84_F, FromInt(16)), cosSqAlpha),
         FAdd(FromInt(4), FMul(WGS84_F, FSub(FromInt(4), FMul(FromInt(3), cosSqAlpha)))))

\* (1 - C) * f * sinAlpha * (sigma + C * sinSigma *
\*     (cos2SigmaM + C * cosSigma * (-1 + 2 * cos2SigmaM * cos2SigmaM)))
LambdaTerm(C, sinAlpha, sigma, sinSigma, cosSigma, cos2SigmaM) ==
    FMul(FMul(FMul(FSub(One, C), WGS84_F), sinAlpha),
         FAdd(sigma,
              FMul(FMul(C, sinSigma),
                   FAdd(cos2SigmaM,
                        FMul(FMul(C, cosSigma), PlusTimesSq(-1, 2, cos2SigmaM))))))

\* A while condition that leaves iterLimit alone, against which BoundedTermination is tried
LoopCondUncounted(exceeds, iterLimit) == [again |-> exceeds, iterLimit |-> iterLimit]

\* while (exceeds && --iterLimit > 0): whether the loop goes on, and iterLimit after the test
LoopCond(exceeds, iterLimit) ==
    IF exceeds THEN [again |-> iterLimit - 1 > 0, iterLimit |-> iterLimit - 1]
    ELSE [again |-> FALSE, iterLimit |-> iterLimit]

\* Math.abs(x - xP) > CONVERGENCE_THRESHOLD
Exceeds(x, xP) == FGt(MathAbs(FSub(x, xP)), CONVERGENCE_THRESHOLD)

\* What the comparison found: "gt", or "le" (within the threshold), or "nan"
TestKind(x, xP) ==
    IF Exceeds(x, xP) THEN "gt"
    ELSE IF FLe(MathAbs(FSub(x, xP)), CONVERGENCE_THRESHOLD) THEN "le" ELSE "nan"

\* A test for a budget below 0, against which AntipodalEquatorialFails is tried
ExhaustedBelow(iterLimit) == iterLimit < 0

\* if (iterLimit === 0) throw
Exhausted(iterLimit) == iterLimit = 0

(***************************************************************************)
(* State.  pc is the position of the one call in progress, args its        *)
(* arguments, inv and dir the local variables of calculateDistance and     *)
(* calculateDestination, ret the returned record, thrown the message of    *)
(* the Error thrown.  bodies counts the loop bodies entered by the call    *)
(* and lastTest records what the latest convergence test found; neither    *)
(* is read by the program.                                                 *)
(***************************************************************************)
VARIABLES pc, op, args, inv, dir, ret, thrown, bodies, lastTest, ui, sw, form, tabs

vars == <<pc, op, args, inv, dir, ret, thrown, bodies, lastTest, ui, sw, form, tabs>>

NoRecord == [none |-> TRUE]
NoArgs == << >>
BodiesCap == MAX_ITERATIONS + 1

InvLocals == [L |-> Undefined, sinU1 |-> Undefined, cosU1 |-> Undefined,
              sinU2 |-> Undefined, cosU2 |-> Undefined,
              lambda |-> Undefined, lambdaP |-> Undefined, iterLimit |-> 0,
              sinLambda |-> Undefined, cosLambda |-> Undefined,
              sinSigma |-> Undefined, cosSigma |-> Undefined, sigma |-> Undefined,
              sinAlpha |-> Undefined, cosSqAlpha |-> Undefined,
              cos2SigmaM |-> Undefined, C |-> Undefined]

DirLocals == [L1 |-> Undefined, s |-> Undefined, sinAlpha1 |-> Undefined,
              cosAlpha1 |-> Undefined, tanU1 |-> Undefined,
              cosU1 |-> Undefined, sinU1 |-> Undefined,
              sigma1 |-> Undefined, sinAlpha |-> Undefined, cosSqAlpha |-> Undefined,
              A_coeff |-> Undefined, B_coeff |-> Undefined,
              sigma |-> Undefined, sigmaP |-> Undefined, iterLimit |-> 0,
              sinSigma |-> Undefined, cosSigma |-> Undefined,
              cos2SigmaM |-> Undefined, deltaSigma |-> Undefined]

(***************************************************************************)
(* UIController: the two selectors of the distance unit and SafeStorage.   *)
(* ui.sel is the value each selector shows and ui.store what localStorage  *)
(* holds under each key; ui.available is SafeStorage._available, which     *)
(* init() has settled through _initTabs; ui.saveVal tells whether the      *)
(* selectors carry the class save-val and ui.pending which of them has a   *)
(* saveTimeout running.  ui.changed and ui.written keep, for the           *)
(* properties, whether a unit has been chosen and which keys localStorage  *)
(* has taken since the last choice.                                        *)
(***************************************************************************)
STORAGE_KEYS ==
    [ACTIVE_TAB |-> "active_tab", COORD_FMT |-> "coord_fmt",
     RANGE_UNIT |-> "range_unit_type", DEST_UNIT |-> "d_unit"]

unitSelectors == {"range_unit_type", "d_unit"}

\* The unit value ('NM' or 'M')
DistUnits == {"NM", "M"}

\* The page after init(), nothing stored yet
PageLoaded(range, dest, available, saveVal) ==
    [sel |-> [range_unit_type |-> range, d_unit |-> dest],
     store |-> [range_unit_type |-> "null", d_unit |-> "null"],
     available |-> available, saveVal |-> saveVal, pending |-> {},
     changed |-> FALSE, written |-> {}]

\* SafeStorage.setItem(key, value); accepted: localStorage.setItem returns,
\* it does not throw
SetItem(u, key, value, accepted) ==
    IF ~u.available THEN u
    ELSE IF accepted
    THEN [u EXCEPT !.store[key] = value, !.written = @ \cup {key}]
    ELSE u

\* A choice that leaves the selectors alone, against which LinkedUnits is tried
UpdateDistUnitStoreOnly(u, val, a1, a2) ==
    SetItem(SetItem(u, STORAGE_KEYS.RANGE_UNIT, val, a1), STORAGE_KEYS.DEST_UNIT, val, a2)

\* _updateDistUnit(val), a1 and a2 telling whether localStorage takes the
\* first and the second write
UpdateDistUnit(u, val, a1, a2) ==
    SetItem(SetItem([u EXCEPT !.sel = [id \in unitSelectors |-> val]],
                    STORAGE_KEYS.RANGE_UNIT, val, a1),
            STORAGE_KEYS.DEST_UNIT, val, a2)

\* The selector id shows val, and the input listener has set its saveTimeout
Picked(u, id, val) ==
    [u EXCEPT !.sel[id] = val,
              !.pending = IF u.saveVal THEN @ \cup {id} ELSE @,
              !.changed = TRUE, !.written = {}]

(***************************************************************************)
(* The service worker.  sw holds the worker's lifecycle state, whether     *)
(* skipWaiting was called, the requests stored in the cache CACHE_NAME and *)
(* the names of the other caches of the origin.                            *)
(***************************************************************************)
CACHE_NAME == "atsep-calc-v1.10"

ASSETS_TO_CACHE ==
    {"./", "./index.html", "./style.css", "./constants.js", "./Vincenty.js",
     "./QNH.js", "./ui.js", "./app.js", "./manifest.json", "./icon-192.png",
     "./icon-512.png", "./apple-touch-icon.png"}

\* The caches a former version of the worker may have left
OldCaches == {"atsep-calc-v1.9"}

\* The worker's script has been parsed and its listeners registered
Registered(others) ==
    [state |-> "parsed", skipWaiting |-> FALSE, cache |-> {}, others |-> others]

\* caches.open(CACHE_NAME).then(cache => cache.addAll(ASSETS_TO_CACHE)) with
\* the .catch that logs: addAll stores all the assets or, when one request
\* fails, none, and the promise handed to waitUntil is fulfilled either way
AddAllSettled(w, fetched) ==
    [w EXCEPT !.cache = IF fetched = ASSETS_TO_CACHE THEN @ \cup ASSETS_TO_CACHE ELSE @,
              !.state = "installed"]

\* caches.keys(), then caches.delete of every name other than CACHE_NAME
OldCachesDeleted(w) ==
    [w EXCEPT !.others = {name \in @ : name = CACHE_NAME}, !.state = "activated"]

(***************************************************************************)
(* The coordinate rows of the Range panel.  An angle is a whole number of  *)
(* units of 1/9000000 degree: toFixed(6) of degrees, toFixed(4) of minutes *)
(* and toFixed(2) of seconds are then multiples of 9, 15 and 25 units.     *)
(***************************************************************************)
Degree == 9000000
Minute == Degree \div 60
Second == Degree \div 3600

RangeCoords == {"r_origin_lat_dd", "r_origin_lon_dd", "r_dest_lat_dd", "r_dest_lon_dd"}

\* The coordinate keys of the storage: those of Range and one of Destination
CoordKeys == RangeCoords \cup {"d_start_lat_dd"}

Formats == {"DD", "DDM", "DMS"}

\* An input without a value, or that the format does not show
Blank == -1

\* x.toFixed(...) for x >= 0, q being the units of the last digit kept
ToFixed(x, q) == ((2 * x + q) \div (2 * q)) * q

\* SafeStorage.isAvailable: the probe runs when _available is null
IsAvailable(f) ==
    IF f.available = "null"
    THEN [f EXCEPT !.available = IF f.usable THEN "true" ELSE "false",
                   !.probes = IF @ < 2 THEN @ + 1 ELSE @]
    ELSE f

\* The value of SafeStorage.getItem(key): <<>> stands for null
GetItem(f, key) == IF f.available = "true" THEN f.store[key] ELSE <<>>

\* SafeStorage.setItem(key, value) on a coordinate key
SetCoord(f, key, value, accepted) ==
    IF f.available = "true" /\ accepted THEN [f EXCEPT !.store[key] = <<value>>] ELSE f

\* _createCoordRow: the hemisphere shows its first option, the inputs are empty
CreateCoordRow == [h |-> 1, d |-> Blank, m |-> Blank, s |-> Blank]

\* getVal of _saveCoordsToStorage: parseFloat(el.value) || 0
GetVal(part) == IF part = Blank THEN 0 ELSE part

\* The decimal degrees _saveCoordsToStorage computes from a row
RowDD(row) == row.h * (GetVal(row.d) + GetVal(row.m) + GetVal(row.s))

\* _loadCoordsFromStorage: the parts of the stored value in the format fmt
LoadCoords(item, fmt) ==
    IF item = <<>> THEN CreateCoordRow
    ELSE IF fmt = "DD"
         THEN [h |-> IF item[1] < 0 THEN -1 ELSE 1,
               d |-> ToFixed(IF item[1] < 0 THEN -item[1] ELSE item[1], 9),
               m |-> Blank, s |-> Blank]
         ELSE IF fmt = "DDM"
              THEN [h |-> IF item[1] < 0 THEN -1 ELSE 1,
                    d |-> ((IF item[1] < 0 THEN -item[1] ELSE item[1]) \div Degree) * Degree,
                    m |-> ToFixed((IF item[1] < 0 THEN -item[1] ELSE item[1]) % Degree, 15),
                    s |-> Blank]
              ELSE [h |-> IF item[1] < 0 THEN -1 ELSE 1,
                    d |-> ((IF item[1] < 0 THEN -item[1] ELSE item[1]) \div Degree) * Degree,
                    m |-> (((IF item[1] < 0 THEN -item[1] ELSE item[1]) % Degree) \div Minute) * Minute,
                    s |-> ToFixed((IF item[1] < 0 THEN -item[1] ELSE item[1]) % Minute, 25)]

\* _updateDependentUI: the rows are created anew and filled from the storage
UpdateDependentUI(f) ==
    [f EXCEPT !.rows = [key \in CoordKeys |-> LoadCoords(GetItem(f, key), f.fmt)]]

\* _swapRangeInputs writing the destination only
SwapRangeInputsDestOnly(f, a) ==
    UpdateDependentUI(
        SetCoord(SetCoord(f,
            "r_dest_lat_dd",
            IF GetItem(f, "r_origin_lat_dd") = <<>> THEN 0 ELSE GetItem(f, "r_origin_lat_dd")[1], a),
            "r_dest_lon_dd",
            IF GetItem(f, "r_origin_lon_dd") = <<>> THEN 0 ELSE GetItem(f, "r_origin_lon_dd")[1], a))

\* _swapRangeInputs: four reads, four writes of p || 0, then the reload;
\* a tells whether localStorage accepts the writes
SwapRangeInputs(f, a) ==
    UpdateDependentUI(
        SetCoord(SetCoord(SetCoord(SetCoord(f,
            "r_origin_lat_dd",
            IF GetItem(f, "r_dest_lat_dd") = <<>> THEN 0 ELSE GetItem(f, "r_dest_lat_dd")[1], a),
            "r_origin_lon_dd",
            IF GetItem(f, "r_dest_lon_dd") = <<>> THEN 0 ELSE GetItem(f, "r_dest_lon_dd")[1], a),
            "r_dest_lat_dd",
            IF GetItem(f, "r_origin_lat_dd") = <<>> THEN 0 ELSE GetItem(f, "r_origin_lat_dd")[1], a),
            "r_dest_lon_dd",
            IF GetItem(f, "r_origin_lon_dd") = <<>> THEN 0 ELSE GetItem(f, "r_origin_lon_dd")[1], a))

\* getDD of _validateAndGetCoords finds no error in the stored value
ValidDD(item, max) ==
    item # <<>> /\ item[1] <= max * Degree /\ -item[1] <= max * Degree

\* _runRange: the outcome of the two _validateAndGetCoords and what
\* calculateDistance is then called with
RunRange(f) ==
    IF /\ ValidDD(GetItem(f, "r_origin_lat_dd"), 90)
       /\ ValidDD(GetItem(f, "r_origin_lon_dd"), 180)
       /\ ValidDD(GetItem(f, "r_dest_lat_dd"), 90)
       /\ ValidDD(GetItem(f, "r_dest_lon_dd"), 180)
    THEN [f EXCEPT !.calc = [kind |-> "called",
                             passed |-> <<f.store["r_origin_lat_dd"][1], f.store["r_origin_lon_dd"][1],
                                          f.store["r_dest_lat_dd"][1], f.store["r_dest_lon_dd"][1]>>,
                             shown |-> <<RowDD(f.rows["r_origin_lat_dd"]), RowDD(f.rows["r_origin_lon_dd"]),
                                         RowDD(f.rows["r_dest_lat_dd"]), RowDD(f.rows["r_dest_lon_dd"])>>]]
    ELSE [f EXCEPT !.calc = [kind |-> "invalid", passed |-> <<>>,
                             shown |-> <<RowDD(f.rows["r_origin_lat_dd"]), RowDD(f.rows["r_origin_lon_dd"]),
                                         RowDD(f.rows["r_dest_lat_dd"]), RowDD(f.rows["r_dest_lon_dd"])>>]]

\* No click of Calculate to tell of
NoCalc == [kind |-> "none", passed |-> <<>>, shown |-> <<>>]

\* Something else than a click of the two buttons has happened
Later(f) == [f EXCEPT !.calc = NoCalc, !.swaps = <<>>]

\* init(): the first SafeStorage call probes localStorage, then the rows are
\* rendered from the storage
FormLoaded(usable, store, fmt) ==
    UpdateDependentUI(IsAvailable(
        [usable |-> usable, available |-> "null", probes |-> 0,
         store |-> IF usable THEN store ELSE [key \in CoordKeys |-> <<>>],
         fmt |-> fmt, rows |-> [key \in CoordKeys |-> CreateCoordRow],
         pending |-> {}, inputs |-> 0, calc |-> NoCalc,
         swaps |-> <<>>]))

(***************************************************************************)
(* The tabs.  Every tab button names a panel in its attribute data-tab; a  *)
(* button stands here for the panel it names.                              *)
(***************************************************************************)
TabIds == {"qnh-panel", "range-panel", "dest-panel"}

\* document.querySelector('.tab-btn'): the first button of the page
FirstTab == "qnh-panel"

\* _switchTab(targetBtn): every class 'active' is removed, the button gets it,
\* its panel gets it if the page has it, and the panel id is stored
SwitchTabKeepingOthers(t, target, accepted) ==
    [t EXCEPT !.activeBtns = @ \cup {target},
              !.activePanels = @ \cup ({target} \cap t.panels),
              !.stored = IF t.usable /\ accepted THEN <<target>> ELSE @,
              !.written = t.usable /\ accepted]

SwitchTab(t, target, accepted) ==
    [t EXCEPT !.activeBtns = {target},
              !.activePanels = {target} \cap t.panels,
              !.stored = IF t.usable /\ accepted THEN <<target>> ELSE @,
              !.written = t.usable /\ accepted]

\* lastTabId of _initTabs: SafeStorage.getItem(ACTIVE_TAB) || 'qnh-panel'
LastTabId(usable, stored) ==
    IF usable /\ stored # <<>> THEN stored[1] ELSE "qnh-panel"

\* _initTabs on a page whose storage holds stored under active_tab: the
\* button of lastTabId, or else the first button, is switched to
InitTabs(usable, stored, panels, accepted) ==
    SwitchTab([usable |-> usable, panels |-> panels, activeBtns |-> {}, activePanels |-> {},
               stored |-> IF usable THEN stored ELSE <<>>, written |-> FALSE,
               clicked |-> FALSE],
              IF LastTabId(usable, stored) \in TabIds THEN LastTabId(usable, stored) ELSE FirstTab,
              accepted)

\* The variables of the calls before any call
NoCall ==
    /\ pc = "idle"
    /\ op = "none"
    /\ args = NoArgs
    /\ inv = InvLocals
    /\ dir = DirLocals
    /\ ret = NoRecord
    /\ thrown = "none"
    /\ bodies = 0
    /\ lastTest = "none"

Init ==
    /\ NoCall
    /\ ui = PageLoaded("NM", "NM", TRUE, TRUE)
    /\ sw = Registered({})
    /\ form = FormLoaded(TRUE, [key \in CoordKeys |-> <<>>], "DD")
    /\ tabs = InitTabs(TRUE, <<>>, TabIds, TRUE)

CountBody(n) == IF n < BodiesCap THEN n + 1 ELSE n

(***************************************************************************)
(* Vincenty.calculateDistance.  Each operator is a group of assignments    *)
(* applied to the record v of the local variables.                         *)
(***************************************************************************)
\* Step 1 and the loop's initial values, from the reduced latitudes and L
InverseStart(U1, U2, L) ==
    [InvLocals EXCEPT !.L = L, !.sinU1 = U1.sinU, !.cosU1 = U1.cosU,
                      !.sinU2 = U2.sinU, !.cosU2 = U2.cosU,
                      !.lambda = L, !.iterLimit = MAX_ITERATIONS]

InverseEntry(lat1, lon1, lat2, lon2) ==
    InverseStart(ReducedLat(toRad(lat1)), ReducedLat(toRad(lat2)),
                 FSub(toRad(lon2), toRad(lon1)))

\* The cross term with a sum for the difference, against which IdenticalPointsCoincident is tried
CrossTermSum(v) ==
    FAdd(FMul(v.cosU1, v.sinU2), FMul(FMul(v.sinU1, v.cosU2), v.cosLambda))

\* cosU1 * sinU2 - sinU1 * cosU2 * cosLambda
CrossTerm(v) ==
    FSub(FMul(v.cosU1, v.sinU2), FMul(FMul(v.sinU1, v.cosU2), v.cosLambda))

InvSinCosLambda(v) ==
    [v EXCEPT !.sinLambda = MathSin(v.lambda), !.cosLambda = MathCos(v.lambda)]

InvSinSigma(v) ==
    [v EXCEPT !.sinSigma = MathSqrt(FAdd(Sq(FMul(v.cosU2, v.sinLambda)), Sq(CrossTerm(v))))]

\* The body of the do loop down to the test for coincident points
InverseBodyHead(v) == InvSinSigma(InvSinCosLambda(v))

InvCosSigma(v) ==
    [v EXCEPT !.cosSigma = FAdd(FMul(v.sinU1, v.sinU2),
                                FMul(FMul(v.cosU1, v.cosU2), v.cosLambda))]

InvSigma(v) ==
    [v EXCEPT !.sigma = MathAtan2(v.sinSigma, v.cosSigma),
              !.sinAlpha = FDiv(FMul(FMul(v.cosU1, v.cosU2), v.sinLambda), v.sinSigma)]

InvCosSqAlpha(v) == [v EXCEPT !.cosSqAlpha = FSub(One, FMul(v.sinAlpha, v.sinAlpha))]

\* if (isNaN(x)) x = 0
NaNToZero(x) == IF IsNaN(x) THEN Zero ELSE x

InvCos2SigmaM(v) ==
    [v EXCEPT !.cos2SigmaM =
                  NaNToZero(FSub(v.cosSigma,
                                 FDiv(FMul(FMul(FromInt(2), v.sinU1), v.sinU2), v.cosSqAlpha))),
              !.C = CCoeff(v.cosSqAlpha)]

InvLambda(v) ==
    [v EXCEPT !.lambdaP = v.lambda,
              !.lambda = FAdd(v.L, LambdaTerm(v.C, v.sinAlpha, v.sigma, v.sinSigma,
                                              v.cosSigma, v.cos2SigmaM))]

\* The rest of the body, from cosSigma to the update of lambda
InverseBodyTail(v) == InvLambda(InvCos2SigmaM(InvCosSqAlpha(InvSigma(InvCosSigma(v)))))

CoincidentRecord == [isCoincident |-> TRUE, distance |-> Zero, initialBearing |-> Zero]

\* The while condition c evaluated on the locals t at the end of the body
InverseTested(t, c) ==
    [pc |-> IF c.again THEN "inv_loop" ELSE "inv_exit",
     inv |-> [t EXCEPT !.iterLimit = c.iterLimit],
     ret |-> NoRecord, test |-> TestKind(t.lambda, t.lambdaP)]

\* One pass of the do loop, h being the locals at the test for coincident
\* points and t those at the end of the body: the early return, or the while
\* condition
InverseOutcome(h, t) ==
    IF FEq(h.sinSigma, Zero)
    THEN [pc |-> "done", inv |-> h, ret |-> CoincidentRecord, test |-> "zero"]
    ELSE InverseTested(t, LoopCond(Exceeds(t.lambda, t.lambdaP), t.iterLimit))

InverseFrom(h) == InverseOutcome(h, InverseBodyTail(h))
InverseStep(v) == InverseFrom(InverseBodyHead(v))

\* s = b * A * (sigma - deltaSigma)
Distance(v, uSq) ==
    FMul(FMul(WGS84_B, ACoeff(uSq)),
         FSub(v.sigma, DeltaSigma(BCoeff(uSq), v.sinSigma, v.cosSigma, v.cos2SigmaM)))

\* The bearing without the added turn, against which BearingInRange is tried
InitialBearingUnshifted(fwdAz) == FMod(toDeg(fwdAz), FromInt(360))

\* (toDeg(fwdAz) + 360) % 360
InitialBearing(fwdAz) == FMod(FAdd(toDeg(fwdAz), FromInt(360)), FromInt(360))

\* Steps 4 and 5: the record returned after the loop
InverseResult(v) ==
    [distance |-> Distance(v, USq(v.cosSqAlpha)),
     initialBearing |-> InitialBearing(MathAtan2(FMul(v.cosU2, v.sinLambda), CrossTerm(v))),
     isCoincident |-> FALSE]

\* if (iterLimit === 0) throw ...; otherwise steps 4 and 5
InverseExit(v) ==
    IF Exhausted(v.iterLimit)
    THEN [ret |-> NoRecord, thrown |-> ERROR_MESSAGES.ANTIPODAL_POINTS]
    ELSE [ret |-> InverseResult(v), thrown |-> "none"]

(***************************************************************************)
(* Vincenty.calculateDestination                                           *)
(***************************************************************************)
\* Steps 1 and 2
DirAngles(L1, s, alpha1, U1) ==
    [DirLocals EXCEPT !.L1 = L1, !.s = s,
                      !.sinAlpha1 = MathSin(alpha1), !.cosAlpha1 = MathCos(alpha1),
                      !.tanU1 = U1.tanU, !.cosU1 = U1.cosU, !.sinU1 = U1.sinU]

\* Step 3
DirSigma1(v) ==
    [v EXCEPT !.sigma1 = MathAtan2(v.tanU1, v.cosAlpha1),
              !.sinAlpha = FMul(v.cosU1, v.sinAlpha1)]

DirCosSqAlpha(v) == [v EXCEPT !.cosSqAlpha = FSub(One, FMul(v.sinAlpha, v.sinAlpha))]

\* Step 4
DirCoeffs(v, uSq) == [v EXCEPT !.A_coeff = ACoeff(uSq), !.B_coeff = BCoeff(uSq)]
DirUSq(v) == DirCoeffs(v, USq(v.cosSqAlpha))

\* The loop's initial values
DirLoopInit(v) ==
    [v EXCEPT !.sigma = FDiv(v.s, FMul(WGS84_B, v.A_coeff)),
              !.sigmaP = FMul(FromInt(2), MathPI),
              !.iterLimit = MAX_ITERATIONS]

DirectEntry(lat1, lon1, distanceMeters, bearingDegrees) ==
    DirLoopInit(DirUSq(DirCosSqAlpha(DirSigma1(
        DirAngles(toRad(lon1), distanceMeters, toRad(bearingDegrees),
                  ReducedLat(toRad(lat1)))))))

DirTrig(v) ==
    [v EXCEPT !.cos2SigmaM = MathCos(FAdd(FMul(FromInt(2), v.sigma1), v.sigma)),
              !.sinSigma = MathSin(v.sigma),
              !.cosSigma = MathCos(v.sigma)]

DirDeltaSigma(v) ==
    [v EXCEPT !.deltaSigma = DeltaSigma(v.B_coeff, v.sinSigma, v.cosSigma, v.cos2SigmaM)]

DirSigma(v) ==
    [v EXCEPT !.sigmaP = v.sigma,
              !.sigma = FAdd(FDiv(v.s, FMul(WGS84_B, v.A_coeff)), v.deltaSigma)]

\* The body of the while loop
DirectBody(v) == DirSigma(DirDeltaSigma(DirTrig(v)))

\* The while condition c evaluated on the locals v; b is v after the body
DirectTested(v, b, c) ==
    [pc |-> IF c.again THEN "dir_loop" ELSE "dir_exit",
     entered |-> c.again,
     dir |-> IF c.again THEN [b EXCEPT !.iterLimit = c.iterLimit]
             ELSE [v EXCEPT !.iterLimit = c.iterLimit],
     test |-> TestKind(v.sigma, v.sigmaP)]

\* One evaluation of the while condition and, when it holds, of the body
DirectOutcome(v, b) == DirectTested(v, b, LoopCond(Exceeds(v.sigma, v.sigmaP), v.iterLimit))

DirectStep(v) == DirectOutcome(v, DirectBody(v))

\* tmp = sinU1 * sinSigma - cosU1 * cosSigma * cosAlpha1
DirTmp(v) == FSub(FMul(v.sinU1, v.sinSigma), FMul(FMul(v.cosU1, v.cosSigma), v.cosAlpha1))

DirPhi2(v) ==
    MathAtan2(FAdd(FMul(v.sinU1, v.cosSigma), FMul(FMul(v.cosU1, v.sinSigma), v.cosAlpha1)),
              FMul(FSub(One, WGS84_F),
                   MathSqrt(FAdd(FMul(v.sinAlpha, v.sinAlpha), Sq(DirTmp(v))))))

DirLambda(v) ==
    MathAtan2(FMul(v.sinSigma, v.sinAlpha1),
              FSub(FMul(v.cosU1, v.cosSigma), FMul(FMul(v.sinU1, v.sinSigma), v.cosAlpha1)))

\* L = lambda - (1 - C) * f * sinAlpha * (...)
DirL(v, C) ==
    FSub(DirLambda(v),
         LambdaTerm(C, v.sinAlpha, v.sigma, v.sinSigma, v.cosSigma, v.cos2SigmaM))

\* Step 6: the record returned after the loop
DirectResult(v) ==
    [lat |-> toDeg(DirPhi2(v)),
     lon |-> toDeg(FAdd(v.L1, DirL(v, CCoeff(v.cosSqAlpha))))]

\* An exit that hands over the destination along with the Error, against which
\* NoPartialResult is tried
DirectExitPartial(v) ==
    [ret |-> DirectResult(v),
     thrown |-> IF Exhausted(v.iterLimit) THEN ERROR_MESSAGES.CONVERGENCE_FAILED ELSE "none"]

\* if (iterLimit === 0) throw ...; otherwise step 6
DirectExit(v) ==
    IF Exhausted(v.iterLimit)
    THEN [ret |-> NoRecord, thrown |-> ERROR_MESSAGES.CONVERGENCE_FAILED]
    ELSE [ret |-> DirectResult(v), thrown |-> "none"]

(***************************************************************************)
(* QNH.calculate                                                           *)
(***************************************************************************)
\* The raw value taken for hPa whatever its unit, against which
\* RangeCheckOnNormalizedPressure is tried
PressureUnconverted(rawValue, inputUnit) == rawValue

\* rawValue in hPa
PressureInHPa(rawValue, inputUnit) ==
    IF inputUnit = "inHg" THEN FMul(rawValue, INHG_TO_HPA) ELSE rawValue

\* The correction without the 1 taken off the power, against which
\* StandardPressureZeroCorrection is tried
CorrectionInFeetOffset(pressureInHPa) ==
    FMul(MathPow(FDiv(pressureInHPa, STANDARD_PRESSURE_HPA),
                 FDiv(FMul(GAS_CONSTANT_DRY_AIR, TEMP_LAPSE_RATE), GRAVITY)),
         FDiv(FDiv(STANDARD_TEMP_K, TEMP_LAPSE_RATE), FEET_TO_METERS))

\* The correction with the difference the other way round, against which
\* CorrectionNeverOfWrongSign is tried
CorrectionInFeetReversed(pressureInHPa) ==
    FMul(FSub(One,
              MathPow(FDiv(pressureInHPa, STANDARD_PRESSURE_HPA),
                      FDiv(FMul(GAS_CONSTANT_DRY_AIR, TEMP_LAPSE_RATE), GRAVITY))),
         FDiv(FDiv(STANDARD_TEMP_K, TEMP_LAPSE_RATE), FEET_TO_METERS))

\* ((p / P0) ** (Rs * L / g) - 1) * (T0 / L / FEET_TO_METERS)
CorrectionInFeet(pressureInHPa) ==
    FMul(FSub(MathPow(FDiv(pressureInHPa, STANDARD_PRESSURE_HPA),
                      FDiv(FMul(GAS_CONSTANT_DRY_AIR, TEMP_LAPSE_RATE), GRAVITY)),
              One),
         FDiv(FDiv(STANDARD_TEMP_K, TEMP_LAPSE_RATE), FEET_TO_METERS))

\* The fields in feet whatever the output unit, against which RoundedInOutputUnit
\* is tried
ConvertedInFeet(correctionInFeet, outputUnit) ==
    [correction |-> MathRound(correctionInFeet),
     pressureAltitude |-> MathRound(FNeg(correctionInFeet)),
     unit |-> IF outputUnit = "FL" THEN "FL" ELSE IF outputUnit = "feet" THEN "ft" ELSE "m"]

\* The three fields that depend on the output unit
Converted(correctionInFeet, outputUnit) ==
    IF outputUnit = "FL"
    THEN [correction |-> MathRound(FDiv(correctionInFeet, FromInt(100))),
          pressureAltitude |-> MathRound(FDiv(FNeg(correctionInFeet), FromInt(100))),
          unit |-> "FL"]
    ELSE IF outputUnit = "feet"
    THEN [correction |-> MathRound(correctionInFeet),
          pressureAltitude |-> MathRound(FNeg(correctionInFeet)),
          unit |-> "ft"]
    ELSE IF outputUnit = "meters"
    THEN [correction |-> MathRound(FMul(correctionInFeet, FEET_TO_METERS)),
          pressureAltitude |-> MathRound(FMul(FNeg(correctionInFeet), FEET_TO_METERS)),
          unit |-> "m"]
    ELSE [correction |-> Undefined, pressureAltitude |-> Undefined, unit |-> "undefined"]

\* The record of a successful call
Corrected(c, warning) ==
    [correction |-> c.correction, pressureAltitude |-> c.pressureAltitude,
     unit |-> c.unit, warning |-> warning, error |-> FALSE]

\* A warning that takes in the values 920 and 1060, against which WarningBand is tried
RangeCheckedInclusive(pressureInHPa, outputUnit) ==
    IF \/ FLt(pressureInHPa, PRESSURE_LIMITS_HPA.hardMin)
       \/ FGt(pressureInHPa, PRESSURE_LIMITS_HPA.hardMax)
    THEN [error |-> TRUE, msg |-> ERROR_MESSAGES.PRESSURE_OUT_OF_RANGE]
    ELSE Corrected(Converted(CorrectionInFeet(pressureInHPa), outputUnit),
                   \/ FLe(pressureInHPa, PRESSURE_LIMITS_HPA.warningMin)
                   \/ FLe(PRESSURE_LIMITS_HPA.warningMax, pressureInHPa))

\* The range check, the warning and the calculation on the pressure in hPa
RangeChecked(pressureInHPa, outputUnit) ==
    IF \/ FLt(pressureInHPa, PRESSURE_LIMITS_HPA.hardMin)
       \/ FGt(pressureInHPa, PRESSURE_LIMITS_HPA.hardMax)
    THEN [error |-> TRUE, msg |-> ERROR_MESSAGES.PRESSURE_OUT_OF_RANGE]
    ELSE Corrected(Converted(CorrectionInFeet(pressureInHPa), outputUnit),
                   \/ FLt(pressureInHPa, PRESSURE_LIMITS_HPA.warningMin)
                   \/ FGt(pressureInHPa, PRESSURE_LIMITS_HPA.warningMax))

calculate(rawValue, inputUnit, outputUnit) ==
    IF IsNaN(rawValue) \/ FLe(rawValue, Zero)
    THEN [error |-> TRUE, msg |-> ERROR_MESSAGES.INVALID_PRESSURE]
    ELSE RangeChecked(PressureInHPa(rawValue, inputUnit), outputUnit)

(***************************************************************************)
(* The first revisions, whose constants are written in the modules         *)
(* themselves.  The statements that hold no constant are those of the      *)
(* later revision and are taken from above; the others follow.             *)
(***************************************************************************)
\* The minor axis taken for the major one, against which RevisionsAgree is tried
WGS84_bAsMajor == FromInt(6378137)

WGS84_a == FromInt(6378137)
WGS84_b == FRound(813664297, -7)                    \* 6356752.314245
WGS84_f == FDiv(One, FRound(625490733, -21))        \* 1 / 298.257223563

\* tanU = (1 - WGS84_f) * Math.tan(phi) and the reduced latitude of phi
Rev1ReducedLat(phi) == ReducedOf(FMul(FSub(One, WGS84_f), MathTan(phi)))

\* uSq = cosSqAlpha * (WGS84_a * WGS84_a - WGS84_b * WGS84_b) / (WGS84_b * WGS84_b)
Rev1USq(cosSqAlpha) ==
    FDiv(FMul(cosSqAlpha, FSub(FMul(WGS84_a, WGS84_a), FMul(WGS84_b, WGS84_b))),
         FMul(WGS84_b, WGS84_b))

\* A = 1 + uSq / 16384 * (4096 + uSq * (-768 + uSq * (320 - 175 * uSq)))
Rev1A(uSq) ==
    FAdd(One,
         FMul(FDiv(uSq, FromInt(16384)),
              FAdd(FromInt(4096),
                   FMul(uSq, FAdd(FromInt(-768),
                                  FMul(uSq, FSub(FromInt(320), FMul(FromInt(175), uSq))))))))

\* B = uSq / 1024 * (256 + uSq * (-128 + uSq * (74 - 47 * uSq)))
Rev1B(uSq) ==
    FMul(FDiv(uSq, FromInt(1024)),
         FAdd(FromInt(256),
              FMul(uSq, FAdd(FromInt(-128),
                             FMul(uSq, FSub(FromInt(74), FMul(FromInt(47), uSq)))))))

\* C = WGS84_f / 16 * cosSqAlpha * (4 + WGS84_f * (4 - 3 * cosSqAlpha))
Rev1C(cosSqAlpha) ==
    FMul(FMul(FDiv(WGS84_f, FromInt(16)), cosSqAlpha),
         FAdd(FromInt(4), FMul(WGS84_f, FSub(FromInt(4), FMul(FromInt(3), cosSqAlpha)))))

\* (1 - C) * WGS84_f * sinAlpha * (sigma + C * sinSigma *
\*     (cos2SigmaM + C * cosSigma * (-1 + 2 * cos2SigmaM * cos2SigmaM)))
Rev1LambdaTerm(C, sinAlpha, sigma, sinSigma, cosSigma, cos2SigmaM) ==
    FMul(FMul(FMul(FSub(One, C), WGS84_f), sinAlpha),
         FAdd(sigma,
              FMul(FMul(C, sinSigma),
                   FAdd(cos2SigmaM,
                        FMul(FMul(C, cosSigma), PlusTimesSq(-1, 2, cos2SigmaM))))))

\* Math.abs(x - xP) > 1e-12
Rev1Exceeds(x, xP) == FGt(MathAbs(FSub(x, xP)), FRound(590295811, -69))

\* calculateDistance of the first revision: the locals before the do loop
Rev1InverseEntry(lat1, lon1, lat2, lon2) ==
    [InvLocals EXCEPT !.L = FSub(toRad(lon2), toRad(lon1)),
                      !.sinU1 = Rev1ReducedLat(toRad(lat1)).sinU,
                      !.cosU1 = Rev1ReducedLat(toRad(lat1)).cosU,
                      !.sinU2 = Rev1ReducedLat(toRad(lat2)).sinU,
                      !.cosU2 = Rev1ReducedLat(toRad(lat2)).cosU,
                      !.lambda = FSub(toRad(lon2), toRad(lon1)),
                      !.iterLimit = 100]

\* cos2SigmaM with if (isNaN(cos2SigmaM)) cos2SigmaM = 0, and C
Rev1Cos2SigmaM(v) ==
    [v EXCEPT !.cos2SigmaM =
                  NaNToZero(FSub(v.cosSigma,
                                 FDiv(FMul(FMul(FromInt(2), v.sinU1), v.sinU2), v.cosSqAlpha))),
              !.C = Rev1C(v.cosSqAlpha)]

Rev1Lambda(v) ==
    [v EXCEPT !.lambdaP = v.lambda,
              !.lambda = FAdd(v.L, Rev1LambdaTerm(v.C, v.sinAlpha, v.sigma, v.sinSigma,
                                                  v.cosSigma, v.cos2SigmaM))]

\* s = WGS84_b * A * (sigma - deltaSigma)
Rev1Distance(v, uSq) ==
    FMul(FMul(WGS84_b, Rev1A(uSq)),
         FSub(v.sigma, DeltaSigma(Rev1B(uSq), v.sinSigma, v.cosSigma, v.cos2SigmaM)))

\* After the do loop: the Error, or the record returned
Rev1InverseExit(v) ==
    IF v.iterLimit = 0
    THEN [ret |-> NoRecord, thrown |-> "Antipodal Limit reached (Points are nearly opposite)"]
    ELSE [ret |-> [distance |-> Rev1Distance(v, Rev1USq(v.cosSqAlpha)),
                   initialBearing |->
                       InitialBearing(MathAtan2(FMul(v.cosU2, v.sinLambda), CrossTerm(v))),
                   isCoincident |-> FALSE],
          thrown |-> "none"]

RECURSIVE Rev1InverseLoop(_)

\* while (Math.abs(lambda - lambdaP) > 1e-12 && --iterLimit > 0), t being the
\* locals at the end of the body
Rev1InverseTested(t) ==
    IF Rev1Exceeds(t.lambda, t.lambdaP)
    THEN IF t.iterLimit - 1 > 0
         THEN Rev1InverseLoop([t EXCEPT !.iterLimit = @ - 1])
         ELSE Rev1InverseExit([t EXCEPT !.iterLimit = @ - 1])
    ELSE Rev1InverseExit(t)

\* The body from the test for coincident points on, h being the locals there
Rev1InverseFrom(h) ==
    IF FEq(h.sinSigma, Zero)
    THEN [ret |-> [isCoincident |-> TRUE, distance |-> Zero, initialBearing |-> Zero],
          thrown |-> "none"]
    ELSE Rev1InverseTested(Rev1Lambda(Rev1Cos2SigmaM(
             InvCosSqAlpha(InvSigma(InvCosSigma(h))))))

\* The do loop from the locals v on
Rev1InverseLoop(v) == Rev1InverseFrom(InvSinSigma(InvSinCosLambda(v)))

\* Vicenty.calculateDistance
Rev1CalculateDistance(lat1, lon1, lat2, lon2) ==
    Rev1InverseLoop(Rev1InverseEntry(lat1, lon1, lat2, lon2))

\* calculateDestination of the first revision: the locals before the while loop
Rev1DirCoeffs(v, uSq) == [v EXCEPT !.A_coeff = Rev1A(uSq), !.B_coeff = Rev1B(uSq)]

Rev1DirLoopInit(v) ==
    [v EXCEPT !.sigma = FDiv(v.s, FMul(WGS84_b, v.A_coeff)),
              !.sigmaP = FMul(FromInt(2), MathPI),
              !.iterLimit = 100]

Rev1DirectEntry(lat1, lon1, distanceMeters, bearingDegrees) ==
    Rev1DirLoopInit(Rev1DirCoeffs(
        DirCosSqAlpha(DirSigma1(
            DirAngles(toRad(lon1), distanceMeters, toRad(bearingDegrees),
                      Rev1ReducedLat(toRad(lat1))))),
        Rev1USq(DirCosSqAlpha(DirSigma1(
            DirAngles(toRad(lon1), distanceMeters, toRad(bearingDegrees),
                      Rev1ReducedLat(toRad(lat1))))).cosSqAlpha)))

\* sigmaP = sigma; sigma = s / (WGS84_b * A) + deltaSigma
Rev1DirSigma(v) ==
    [v EXCEPT !.sigmaP = v.sigma,
              !.sigma = FAdd(FDiv(v.s, FMul(WGS84_b, v.A_coeff)), v.deltaSigma)]

\* phi2, with (1 - WGS84_f) in the second argument of atan2
Rev1DirPhi2(v) ==
    MathAtan2(FAdd(FMul(v.sinU1, v.cosSigma), FMul(FMul(v.cosU1, v.sinSigma), v.cosAlpha1)),
              FMul(FSub(One, WGS84_f),
                   MathSqrt(FAdd(FMul(v.sinAlpha, v.sinAlpha), Sq(DirTmp(v))))))

\* After the while loop: the Error, or the record returned
Rev1DirectExit(v) ==
    IF v.iterLimit = 0
    THEN [ret |-> NoRecord, thrown |-> "Formula failed to converge"]
    ELSE [ret |-> [lat |-> toDeg(Rev1DirPhi2(v)),
                   lon |-> toDeg(FAdd(v.L1,
                               FSub(DirLambda(v),
                                    Rev1LambdaTerm(Rev1C(v.cosSqAlpha), v.sinAlpha, v.sigma,
                                                   v.sinSigma, v.cosSigma, v.cos2SigmaM))))],
          thrown |-> "none"]

RECURSIVE Rev1DirectLoop(_)

\* while (Math.abs(sigma - sigmaP) > 1e-12 && --iterLimit > 0) { ... }
Rev1DirectLoop(v) ==
    IF Rev1Exceeds(v.sigma, v.sigmaP)
    THEN IF v.iterLimit - 1 > 0
         THEN Rev1DirectLoop(Rev1DirSigma(DirDeltaSigma(DirTrig(
                  [v EXCEPT !.iterLimit = @ - 1]))))
         ELSE Rev1DirectExit([v EXCEPT !.iterLimit = @ - 1])
    ELSE Rev1DirectExit(v)

\* Vicenty.calculateDestination
Rev1CalculateDestination(lat1, lon1, distanceMeters, bearingDegrees) ==
    Rev1DirectLoop(Rev1DirectEntry(lat1, lon1, distanceMeters, bearingDegrees))

\* QNH.calculate of the first revision
Rev1CorrectionInFeet(pressureInHPa) ==
    FMul(FSub(MathPow(FDiv(pressureInHPa, FRound(4053, -2)),
                      FDiv(FMul(FRound(601993501, -21), FRound(893353197, -37)),
                           FRound(658113141, -26))),
              One),
         FDiv(FDiv(FRound(604294349, -21), FRound(893353197, -37)), FRound(654553015, -31)))

\* finalCorrection and finalUnit
Rev1Final(correctionInFeet, outputUnit) ==
    IF outputUnit = "FL"
    THEN [correction |-> MathRound(FDiv(correctionInFeet, FromInt(100))), unit |-> "FL"]
    ELSE IF outputUnit = "feet"
    THEN [correction |-> MathRound(correctionInFeet), unit |-> "ft"]
    ELSE IF outputUnit = "meters"
    THEN [correction |-> MathRound(FMul(correctionInFeet, FRound(654553015, -31))), unit |-> "m"]
    ELSE [correction |-> Undefined, unit |-> "undefined"]

Rev1Returned(c, warning) ==
    [correction |-> c.correction, unit |-> c.unit, warning |-> warning, error |-> FALSE]

Rev1RangeChecked(pressureInHPa, outputUnit) ==
    IF FLt(pressureInHPa, FromInt(850)) \/ FGt(pressureInHPa, FromInt(1100))
    THEN [error |-> TRUE, msg |-> "Pressure outside realistic limits"]
    ELSE Rev1Returned(Rev1Final(Rev1CorrectionInFeet(pressureInHPa), outputUnit),
                      \/ FLt(pressureInHPa, FromInt(920))
                      \/ FGt(pressureInHPa, FromInt(1060)))

Rev1Calculate(rawValue, inputUnit, outputUnit) ==
    IF IsNaN(rawValue) \/ FLe(rawValue, Zero)
    THEN [error |-> TRUE, msg |-> "Invalid pressure value"]
    ELSE Rev1RangeChecked(IF inputUnit = "inHg" THEN FMul(rawValue, FRound(568141797, -24))
                          ELSE rawValue,
                          outputUnit)

(***************************************************************************)
(* Arguments of the calls.                                                 *)
(***************************************************************************)
Lats == {FromInt(-90), FromInt(-1), FromInt(0), FromInt(1), FromInt(90)}
Lons == {FromInt(-180), FromInt(-90), FromInt(0), FRound(1, EMin), FromInt(180)}
StartLats == {FromInt(-30), FromInt(0), FRound(1, -26), FromInt(30), FromInt(90)}
StartLons == {FromInt(0), FromInt(179)}
Distances == {FromInt(0), FromInt(200000), FromInt(10000000), FromInt(40009728)}
Bearings == {FromInt(0), FromInt(90), FromInt(180)}
Pressures ==
    {NaN, Inf(1), Inf(-1), Zero, FromInt(-5), FRound(1, EMin),
     FromInt(25), FRound(251, -3), FromInt(27), FromInt(30), FRound(65, -1),
     FromInt(849), FromInt(850), FromInt(851), FromInt(919), FromInt(920), FromInt(921),
     FromInt(1000), FromInt(1012), FRound(4053, -2), FromInt(1016), FromInt(1058), FromInt(1060), FromInt(1062),
     FromInt(1098), FromInt(1100), FromInt(1102)}
InputUnits == {"hPa", "inHg"}
OutputUnits == {"FL", "feet", "meters"}
\* A string that is none of the three output units
OtherUnits == {"km"}

(***************************************************************************)
(* Actions.                                                                *)
(***************************************************************************)
CallInverse ==
    /\ pc = "idle"
    /\ \E lat1 \in Lats, lon1 \in Lons, lat2 \in Lats, lon2 \in Lons :
          /\ args' = <<lat1, lon1, lat2, lon2>>
          /\ inv' = InverseEntry(lat1, lon1, lat2, lon2)
    /\ op' = "inverse"
    /\ pc' = "inv_loop"
    /\ UNCHANGED <<dir, ret, thrown, bodies, lastTest, ui, sw, form, tabs>>

\* The state after one pass of the do loop with outcome o
InversePass(o) ==
    /\ pc' = o.pc
    /\ inv' = o.inv
    /\ ret' = o.ret
    /\ lastTest' = o.test
    /\ bodies' = CountBody(bodies)
    /\ UNCHANGED <<op, args, dir, thrown, ui, sw, form, tabs>>

InverseIter ==
    /\ pc = "inv_loop"
    /\ InversePass(InverseStep(inv))

\* The call ends with the outcome x: a returned record or a thrown Error
Leave(x) ==
    /\ ret' = x.ret
    /\ thrown' = x.thrown
    /\ pc' = "done"
    /\ UNCHANGED <<op, args, inv, dir, bodies, lastTest, ui, sw, form, tabs>>

InverseFinish ==
    /\ pc = "inv_exit"
    /\ Leave(InverseExit(inv))

CallDirect ==
    /\ pc = "idle"
    /\ \E lat1 \in StartLats, lon1 \in StartLons, s \in Distances, brg \in Bearings :
          /\ args' = <<lat1, lon1, s, brg>>
          /\ dir' = DirectEntry(lat1, lon1, s, brg)
    /\ op' = "direct"
    /\ pc' = "dir_loop"
    /\ UNCHANGED <<inv, ret, thrown, bodies, lastTest, ui, sw, form, tabs>>

\* The state after one evaluation of the while condition with outcome o
DirectPass(o) ==
    /\ pc' = o.pc
    /\ dir' = o.dir
    /\ lastTest' = o.test
    /\ bodies' = IF o.entered THEN CountBody(bodies) ELSE bodies
    /\ UNCHANGED <<op, args, inv, ret, thrown, ui, sw, form, tabs>>

DirectIter ==
    /\ pc = "dir_loop"
    /\ DirectPass(DirectStep(dir))

DirectFinish ==
    /\ pc = "dir_exit"
    /\ Leave(DirectExit(dir))

CallQNH ==
    /\ pc = "idle"
    /\ \E rawValue \in Pressures, inputUnit \in InputUnits,
          outputUnit \in OutputUnits \cup OtherUnits :
          /\ args' = <<rawValue, inputUnit, outputUnit>>
          /\ ret' = calculate(rawValue, inputUnit, outputUnit)
    /\ op' = "qnh"
    /\ pc' = "done"
    /\ UNCHANGED <<inv, dir, thrown, bodies, lastTest, ui, sw, form, tabs>>

\* The caller hands the destination it has got, if its latitude and longitude
\* are numbers, after the start point to calculateDistance; the distance and
\* the bearing it had asked for stay in args
CallInverseOnDestination ==
    /\ pc = "done"
    /\ op = "direct"
    /\ thrown = "none"
    /\ IsFinite(ret.lat) /\ IsFinite(ret.lon)
    /\ args' = <<args[1], args[2], ret.lat, ret.lon, args[3], args[4]>>
    /\ inv' = InverseEntry(args[1], args[2], ret.lat, ret.lon)
    /\ op' = "inverse"
    /\ pc' = "inv_loop"
    /\ dir' = DirLocals
    /\ ret' = NoRecord
    /\ bodies' = 0
    /\ lastTest' = "none"
    /\ UNCHANGED <<thrown, ui, sw, form, tabs>>

\* The caller asks for the way back: the two points in the other order, the
\* outcome of the first call kept after them in args
CallInverseSwapped ==
    /\ pc = "done"
    /\ op = "inverse"
    /\ Len(args) = 4
    /\ args' = <<args[3], args[4], args[1], args[2], [ret |-> ret, thrown |-> thrown]>>
    /\ inv' = InverseEntry(args[3], args[4], args[1], args[2])
    /\ pc' = "inv_loop"
    /\ ret' = NoRecord
    /\ thrown' = "none"
    /\ bodies' = 0
    /\ lastTest' = "none"
    /\ UNCHANGED <<op, dir, ui, sw, form, tabs>>

\* The caller has the outcome; the next call starts from nothing
Return ==
    /\ pc = "done"
    /\ pc' = "idle"
    /\ op' = "none"
    /\ args' = NoArgs
    /\ inv' = InvLocals
    /\ dir' = DirLocals
    /\ ret' = NoRecord
    /\ thrown' = "none"
    /\ bodies' = 0
    /\ lastTest' = "none"
    /\ UNCHANGED <<ui, sw, form, tabs>>

Next ==
    \/ CallInverse
    \/ InverseIter
    \/ InverseFinish
    \/ CallDirect
    \/ DirectIter
    \/ DirectFinish
    \/ CallQNH
    \/ CallInverseOnDestination
    \/ CallInverseSwapped
    \/ Return

Spec == Init /\ [][Next]_vars

(***************************************************************************)
(* Loop control alone.  The two loops are run with the numbers their       *)
(* bodies compute replaced by any of LoopValues, so that every sequence    *)
(* of test outcomes occurs; the tests, the counter and the exits are the   *)
(* ones above.                                                             *)
(***************************************************************************)
LoopValues == {Zero, One, NaN}

AnyInverse ==
    /\ pc = "idle"
    /\ \E l \in LoopValues :
          inv' = [InvLocals EXCEPT !.L = l, !.lambda = l, !.iterLimit = MAX_ITERATIONS]
    /\ op' = "inverse"
    /\ pc' = "inv_loop"
    /\ UNCHANGED <<args, dir, ret, thrown, bodies, lastTest, ui, sw, form, tabs>>

AnyInverseIter ==
    /\ pc = "inv_loop"
    /\ \E sinSigma \in {Zero, One}, lambda \in LoopValues :
          InversePass(InverseOutcome([inv EXCEPT !.sinSigma = sinSigma],
                                     [inv EXCEPT !.sinSigma = sinSigma,
                                                 !.lambdaP = inv.lambda,
                                                 !.lambda = lambda]))

AnyDirect ==
    /\ pc = "idle"
    /\ \E sigma \in LoopValues \cup {FMul(FromInt(2), MathPI)} :
          dir' = [DirLocals EXCEPT !.sigma = sigma, !.sigmaP = FMul(FromInt(2), MathPI),
                                   !.iterLimit = MAX_ITERATIONS]
    /\ op' = "direct"
    /\ pc' = "dir_loop"
    /\ UNCHANGED <<args, inv, ret, thrown, bodies, lastTest, ui, sw, form, tabs>>

AnyDirectIter ==
    /\ pc = "dir_loop"
    /\ \E sigma \in LoopValues :
          DirectPass(DirectOutcome(dir, [dir EXCEPT !.sigmaP = dir.sigma, !.sigma = sigma]))

LoopNext ==
    \/ AnyInverse
    \/ AnyInverseIter
    \/ InverseFinish
    \/ AnyDirect
    \/ AnyDirectIter
    \/ DirectFinish
    \/ Return

LoopSpec == Init /\ [][LoopNext]_vars

FairLoopSpec == LoopSpec /\ WF_vars(LoopNext)

(***************************************************************************)
(* The selectors of the distance unit alone, on a page whose selectors may *)
(* show either unit at first, with or without the class save-val, and      *)
(* with localStorage available or not.                                     *)
(***************************************************************************)
UiInit ==
    /\ NoCall
    /\ \E range \in DistUnits, dest \in DistUnits, available \in BOOLEAN, saveVal \in BOOLEAN :
          ui = PageLoaded(range, dest, available, saveVal)
    /\ sw = Registered({})
    /\ form = FormLoaded(TRUE, [key \in CoordKeys |-> <<>>], "DD")
    /\ tabs = InitTabs(TRUE, <<>>, TabIds, TRUE)

\* The user chooses another unit in the selector id: the input listener, then
\* the change listener
ChangeUnit(id) ==
    /\ \E val \in DistUnits \ {ui.sel[id]}, a1 \in BOOLEAN, a2 \in BOOLEAN :
          ui' = UpdateDistUnit(Picked(ui, id, val), val, a1, a2)
    /\ UNCHANGED <<pc, op, args, inv, dir, ret, thrown, bodies, lastTest, sw, form, tabs>>

ChangeRangeUnit == ChangeUnit(STORAGE_KEYS.RANGE_UNIT)
ChangeDestUnit == ChangeUnit(STORAGE_KEYS.DEST_UNIT)

\* The saveTimeout of a selector runs out: SafeStorage.setItem(el.id, el.value)
SaveTimeout ==
    /\ \E id \in ui.pending, accepted \in BOOLEAN :
          ui' = SetItem([ui EXCEPT !.pending = @ \ {id}], id, ui.sel[id], accepted)
    /\ UNCHANGED <<pc, op, args, inv, dir, ret, thrown, bodies, lastTest, sw, form, tabs>>

UiNext ==
    \/ ChangeRangeUnit
    \/ ChangeDestUnit
    \/ SaveTimeout

UiSpec == UiInit /\ [][UiNext]_vars

(***************************************************************************)
(* The service worker's lifecycle: install, activate, then the fetch       *)
(* events of the pages it controls.                                        *)
(***************************************************************************)
SwInit ==
    /\ NoCall
    /\ ui = PageLoaded("NM", "NM", TRUE, TRUE)
    /\ \E others \in SUBSET OldCaches : sw = Registered(others)
    /\ form = FormLoaded(TRUE, [key \in CoordKeys |-> <<>>], "DD")
    /\ tabs = InitTabs(TRUE, <<>>, TabIds, TRUE)

\* The install listener: self.skipWaiting() and event.waitUntil(...)
InstallEvent ==
    /\ sw.state = "parsed"
    /\ sw' = [sw EXCEPT !.state = "installing", !.skipWaiting = TRUE]
    /\ UNCHANGED <<pc, op, args, inv, dir, ret, thrown, bodies, lastTest, ui, form, tabs>>

\* The promise handed to waitUntil settles; fetched are the assets the
\* network served to addAll
InstallSettled ==
    /\ sw.state = "installing"
    /\ \E fetched \in {ASSETS_TO_CACHE} \cup {ASSETS_TO_CACHE \ {a} : a \in ASSETS_TO_CACHE} :
          sw' = AddAllSettled(sw, fetched)
    /\ UNCHANGED <<pc, op, args, inv, dir, ret, thrown, bodies, lastTest, ui, form, tabs>>

\* The activate event is dispatched: skipWaiting was called, so the worker
\* does not wait
ActivateEvent ==
    /\ sw.state = "installed"
    /\ sw.skipWaiting
    /\ sw' = [sw EXCEPT !.state = "activating"]
    /\ UNCHANGED <<pc, op, args, inv, dir, ret, thrown, bodies, lastTest, ui, form, tabs>>

\* The promise of the activate listener settles: the old caches are deleted
\* and the clients claimed
ActivateSettled ==
    /\ sw.state = "activating"
    /\ sw' = OldCachesDeleted(sw)
    /\ UNCHANGED <<pc, op, args, inv, dir, ret, thrown, bodies, lastTest, ui, form, tabs>>

\* The fetch listener on a same-origin GET request whose network response
\* has status 200: cache.put(event.request, responseClone)
FetchEvent ==
    /\ sw.state = "activated"
    /\ \E request \in ASSETS_TO_CACHE \ sw.cache :
          sw' = [sw EXCEPT !.cache = @ \cup {request}]
    /\ UNCHANGED <<pc, op, args, inv, dir, ret, thrown, bodies, lastTest, ui, form, tabs>>

SwNext ==
    \/ InstallEvent
    \/ InstallSettled
    \/ ActivateEvent
    \/ ActivateSettled
    \/ FetchEvent

SwSpec == SwInit /\ [][SwNext]_vars

(***************************************************************************)
(* The Range panel: the user types in the coordinate rows, the debounce    *)
(* timers run out, the format changes, and the swap and Calculate buttons  *)
(* are clicked.  calc is the outcome of a click of Calculate, and swaps    *)
(* the storage each click of the swap button found and whether its writes *)
(* were accepted, for as long as nothing else has happened since.         *)
(***************************************************************************)
\* What the storage may hold when the page loads
StoredAtLoad ==
    {[key \in CoordKeys |-> <<>>],
     [key \in CoordKeys |-> IF key = "r_origin_lat_dd" THEN <<10 * Degree>> ELSE <<>>],
     [r_origin_lat_dd |-> <<10 * Degree>>, r_origin_lon_dd |-> <<-20 * Degree>>,
      r_dest_lat_dd |-> <<30 * Degree + 1501 * 25>>, r_dest_lon_dd |-> <<40 * Degree>>,
      d_start_lat_dd |-> <<50 * Degree>>]}

\* The input events of one run of the page
MaxInputs == 4

\* What the user types in the inputs of a row: degrees only
TypedParts == [d |-> {45 * Degree}, m |-> {}, s |-> {}]

FormInit ==
    /\ NoCall
    /\ ui = PageLoaded("NM", "NM", TRUE, TRUE)
    /\ sw = Registered({})
    /\ \E usable \in BOOLEAN, store \in StoredAtLoad, fmt \in Formats :
          form = FormLoaded(usable, store, fmt)
    /\ tabs = InitTabs(TRUE, <<>>, TabIds, TRUE)

\* _handleCoordInput: an input of the row key gets a new value and its
\* coordTimeout is set
CoordInput ==
    /\ form.inputs < MaxInputs
    /\ \E key \in RangeCoords, part \in {"d", "m", "s"} :
          /\ part = "d" \/ (part = "m" /\ form.fmt # "DD") \/ (part = "s" /\ form.fmt = "DMS")
          /\ \E val \in TypedParts[part] :
                /\ form.rows[key][part] # val
                /\ form' = Later([form EXCEPT !.rows[key][part] = val, !.pending = @ \cup {key},
                                               !.inputs = @ + 1])
    /\ UNCHANGED <<pc, op, args, inv, dir, ret, thrown, bodies, lastTest, ui, sw, tabs>>

\* A coordTimeout of the row key runs out: _saveCoordsToStorage
CoordTimeout ==
    /\ \E key \in form.pending, accepted \in BOOLEAN :
          form' = Later([SetCoord(form, key, RowDD(form.rows[key]), accepted)
                             EXCEPT !.pending = @ \ {key}])
    /\ UNCHANGED <<pc, op, args, inv, dir, ret, thrown, bodies, lastTest, ui, sw, tabs>>

\* _updateFmt: the selectors show val and the rows are rendered again
ChangeFmt ==
    /\ \E val \in Formats \ {form.fmt} :
          form' = Later(UpdateDependentUI([form EXCEPT !.fmt = val]))
    /\ UNCHANGED <<pc, op, args, inv, dir, ret, thrown, bodies, lastTest, ui, sw, tabs>>

\* A click of the swap button
SwapClick ==
    /\ \E a \in BOOLEAN :
          form' = [SwapRangeInputs(form, a) EXCEPT
                       !.calc = NoCalc,
                       !.swaps = (IF @ = <<>> THEN <<>> ELSE <<@[Len(@)]>>) \o
                                 <<[store |-> form.store, accepted |-> a]>>]
    /\ UNCHANGED <<pc, op, args, inv, dir, ret, thrown, bodies, lastTest, ui, sw, tabs>>

\* A click of the Calculate button of the Range panel
RangeClick ==
    /\ form.calc = NoCalc
    /\ form' = [RunRange(form) EXCEPT !.swaps = <<>>]
    /\ UNCHANGED <<pc, op, args, inv, dir, ret, thrown, bodies, lastTest, ui, sw, tabs>>

FormNext ==
    \/ CoordInput
    \/ CoordTimeout
    \/ ChangeFmt
    \/ SwapClick
    \/ RangeClick

FormSpec == FormInit /\ [][FormNext]_vars

(***************************************************************************)
(* The tabs after init(), then the clicks of the tab buttons.  The page    *)
(* may lack a panel, and the storage may hold the id of a panel of a       *)
(* former version.                                                         *)
(***************************************************************************)
TabInit ==
    /\ NoCall
    /\ ui = PageLoaded("NM", "NM", TRUE, TRUE)
    /\ sw = Registered({})
    /\ form = FormLoaded(TRUE, [key \in CoordKeys |-> <<>>], "DD")
    /\ \E usable \in BOOLEAN, panels \in SUBSET TabIds, accepted \in BOOLEAN,
          stored \in {<<>>, <<"old-panel">>} \cup {<<id>> : id \in TabIds} :
          tabs = InitTabs(usable, stored, panels, accepted)

\* A click of a tab button
TabClick ==
    /\ \E target \in TabIds, accepted \in BOOLEAN :
          tabs' = [SwitchTab(tabs, target, accepted) EXCEPT !.clicked = TRUE]
    /\ UNCHANGED <<pc, op, args, inv, dir, ret, thrown, bodies, lastTest, ui, sw, form>>

TabNext == TabClick

TabSpec == TabInit /\ [][TabNext]_vars

(***************************************************************************)
(* Properties.  A call is over when pc = "done": ret and thrown are then   *)
(* what the caller gets.                                                   *)
(***************************************************************************)
InverseOver == op = "inverse" /\ pc = "done"
DirectOver == op = "direct" /\ pc = "done"
QNHOver == op = "qnh" /\ pc = "done"

\* C1: a call of calculateDistance ends in exactly one of three ways: the
\* points were found coincident (sinSigma = 0), or the latest test found
\* |lambda - lambdaP| <= 1e-12 and a record is returned, or 100 bodies ran with
\* every test above the threshold and the Error is thrown.
InverseOutcomeTrichotomy ==
    InverseOver =>
        \/ lastTest = "zero" /\ ret = CoincidentRecord /\ thrown = "none"
        \/ lastTest = "le" /\ ret # NoRecord /\ ret # CoincidentRecord /\ thrown = "none"
        \/ /\ lastTest = "gt"
           /\ bodies = MAX_ITERATIONS
           /\ ret = NoRecord
           /\ thrown = ERROR_MESSAGES.ANTIPODAL_POINTS

\* C2: calculateDestination throws its convergence Error only when the loop
\* body has run 100 times.
DirectErrorAfterHundredBodies ==
    DirectOver /\ thrown # "none" => bodies = MAX_ITERATIONS

\* C3: calculateDistance called with twice the same point returns
\* {distance: 0, initialBearing: 0, isCoincident: true} from the first pass of
\* the loop and throws nothing.
IdenticalPointsCoincident ==
    op = "inverse" /\ args[1] = args[3] /\ args[2] = args[4] =>
        \/ pc = "inv_loop" /\ bodies = 0
        \/ /\ pc = "done"
           /\ bodies = 1
           /\ ret = [distance |-> Zero, initialBearing |-> Zero, isCoincident |-> TRUE]
           /\ thrown = "none"

\* The same point twice, at the north pole, has returned
IdenticalPointsAtPole ==
    /\ InverseOver
    /\ args[1] = FromInt(90)
    /\ args[1] = args[3]
    /\ args[2] = args[4]
    /\ ret.isCoincident

\* C4: whatever numbers the loop bodies compute, a call of calculateDistance
\* or calculateDestination enters at most 100 loop bodies and then ends, by
\* returning or by throwing.
BoundedTermination ==
    /\ [](bodies <= MAX_ITERATIONS)
    /\ (pc \in {"inv_loop", "dir_loop"}) ~> (pc = "done")

\* A call has ended by throwing after 100 bodies
BudgetExhausted == pc = "done" /\ bodies = MAX_ITERATIONS /\ thrown # "none"

\* C5: QNH.calculate answers every rawValue that is not a finite number above
\* 0 with the invalid-pressure error record.
InvalidPressureRejectedFirst ==
    QNHOver /\ ~(IsFinite(args[1]) /\ FGt(args[1], Zero)) =>
        ret = [error |-> TRUE, msg |-> "Please enter a valid positive pressure value."]

\* The pressure in hPa of the call in progress: rawValue x 33.86389 for inHg
NormalizedPressure ==
    IF args[2] = "inHg" THEN FMul(args[1], FRound(568141797, -24)) ELSE args[1]

\* C6: for a rawValue above 0, QNH.calculate gives the out-of-range error
\* record exactly when the pressure in hPa is below 850 or above 1100, and a
\* success record otherwise.
RangeCheckOnNormalizedPressure ==
    QNHOver /\ FGt(args[1], Zero) =>
        IF \/ FLt(NormalizedPressure, FromInt(850))
           \/ FGt(NormalizedPressure, FromInt(1100))
        THEN ret = [error |-> TRUE,
                    msg |-> "Pressure outside realistic limits (850-1100 hPa)."]
        ELSE ret.error = FALSE

\* A value in inHg, itself far below 850, has been accepted
InHgAccepted ==
    /\ QNHOver
    /\ args[2] = "inHg"
    /\ FLt(args[1], FromInt(850))
    /\ ret.error = FALSE

\* C7: in a success record of QNH.calculate, warning is true exactly when
\* the pressure in hPa is below 920 or above 1060.
WarningBand ==
    QNHOver /\ ret.error = FALSE =>
        ret.warning = (\/ FLt(NormalizedPressure, FromInt(920))
                       \/ FGt(NormalizedPressure, FromInt(1060)))

\* The value 920, where the lower band ends, has been answered without the warning
WarningAtBandEdge ==
    /\ QNHOver
    /\ ret.error = FALSE
    /\ FEq(NormalizedPressure, FromInt(920))
    /\ ~ret.warning

\* C8: a thrown Error comes with no record, a call whose iteration budget
\* is used up throws, the error record of QNH.calculate has the fields error
\* and msg alone, and its success record has error = false.
NoPartialResult ==
    /\ thrown # "none" => ret = NoRecord
    /\ InverseOver /\ inv.iterLimit = 0 => thrown # "none"
    /\ DirectOver /\ dir.iterLimit = 0 => thrown # "none"
    /\ QNHOver =>
          \/ DOMAIN ret = {"error", "msg"} /\ ret.error = TRUE
          \/ /\ DOMAIN ret = {"correction", "pressureAltitude", "unit", "warning", "error"}
             /\ ret.error = FALSE

\* calculateDestination has used up its budget and thrown
DirectBudgetError == DirectOver /\ dir.iterLimit = 0 /\ thrown # "none"

\* C9: the distance of every record calculateDistance returns is a finite
\* number, 0 or more.
ReturnedDistanceFinite ==
    InverseOver /\ thrown = "none" =>
        IsFinite(ret.distance) /\ FLe(Zero, ret.distance)

\* C10: the initialBearing of every record calculateDistance returns is at
\* least 0 and less than 360.
BearingInRange ==
    InverseOver /\ thrown = "none" =>
        FLe(Zero, ret.initialBearing) /\ FLt(ret.initialBearing, FromInt(360))

\* A bearing of 180 or more, from a forward azimuth below 0, has been returned
BearingPastHalfTurn ==
    /\ InverseOver
    /\ thrown = "none"
    /\ ~ret.isCoincident
    /\ FLt(FromInt(180), ret.initialBearing)

\* C11: the point calculateDestination returns has its latitude between -90
\* and 90 and its longitude between -180 and 180, a path across the
\* 180-degree meridian included.
DestinationInRange ==
    DirectOver /\ thrown = "none" =>
        /\ FLe(FromInt(-90), ret.lat) /\ FLe(ret.lat, FromInt(90))
        /\ FLe(FromInt(-180), ret.lon) /\ FLe(ret.lon, FromInt(180))

\* C12: calculateDistance returns the coincident record only for two
\* identical points: the same latitude and the same longitude.
CoincidentOnlyIfIdentical ==
    InverseOver /\ thrown = "none" /\ ret.isCoincident =>
        args[1] = args[3] /\ args[2] = args[4]

\* C13: for the antipodal points of the equator, calculateDistance(0, 0, 0, 180),
\* no pass of the loop finds the change of lambda within the threshold or
\* sinSigma equal to 0, and the call ends after MAX_ITERATIONS passes with the
\* Error for antipodal points and without a record.
AntipodalEquatorialFails ==
    op = "inverse" /\ args = <<Zero, Zero, Zero, FromInt(180)>> =>
        /\ lastTest \in {"none", "gt"}
        /\ ret = NoRecord
        /\ pc = "done" =>
              thrown = ERROR_MESSAGES.ANTIPODAL_POINTS /\ bodies = MAX_ITERATIONS

\* calculateDistance(0, 0, 0, 180) has ended
AntipodalEquatorialOver ==
    /\ InverseOver
    /\ args = <<Zero, Zero, Zero, FromInt(180)>>
    /\ thrown = ERROR_MESSAGES.ANTIPODAL_POINTS

\* QNH.calculate has returned a result and not an error record
QNHReturned == QNHOver /\ ~ret.error

\* The same, the call being for one of the three output units
QNHSucceeded == QNHReturned /\ args[3] \in OutputUnits

\* C14: for every accepted pressure and every output unit the correction is
\* negative when the pressure in hPa is below 1013.25 and positive when it
\* is above.
CorrectionStrictlySigned ==
    QNHSucceeded =>
        /\ FLt(NormalizedPressure, FRound(4053, -2)) => FLt(ret.correction, Zero)
        /\ FGt(NormalizedPressure, FRound(4053, -2)) => FGt(ret.correction, Zero)

\* C14, amended: for every accepted pressure and every output unit the
\* correction is negative or 0 when the pressure in hPa is below 1013.25 and
\* positive or 0 when it is above.
CorrectionNeverOfWrongSign ==
    QNHSucceeded =>
        /\ FLt(NormalizedPressure, FRound(4053, -2)) => FLe(ret.correction, Zero)
        /\ FGt(NormalizedPressure, FRound(4053, -2)) => FLe(Zero, ret.correction)

\* A pressure below the standard one has been given a correction below 0
CorrectionBelowStandard ==
    /\ QNHSucceeded
    /\ FLt(NormalizedPressure, FRound(4053, -2))
    /\ FLt(ret.correction, Zero)

\* The number of feet x in the output unit, before rounding
InOutputUnit(x, outputUnit) ==
    IF outputUnit = "FL" THEN FDiv(x, FromInt(100))
    ELSE IF outputUnit = "feet" THEN x
    ELSE FMul(x, FRound(654553015, -31))

\* c is an integer and no further than 1/2 from x
IsNearestInteger(c, x) ==
    /\ c.k = "fin"
    /\ c.e >= 0 \/ c.m % 2^(-c.e) = 0
    /\ FLe(MathAbs(FSub(c, x)), FRound(1, -1))

\* C15: for the output units FL, feet and meters the unit returned is FL, ft
\* and m, and correction and pressureAltitude are integers nearest to the
\* value in feet divided by 100, the value in feet, and the value in feet
\* multiplied by 0.3048.
RoundedInOutputUnit ==
    QNHSucceeded =>
        /\ ret.unit = (IF args[3] = "FL" THEN "FL" ELSE IF args[3] = "feet" THEN "ft" ELSE "m")
        /\ IsNearestInteger(ret.correction,
                            InOutputUnit(CorrectionInFeet(NormalizedPressure), args[3]))
        /\ IsNearestInteger(ret.pressureAltitude,
                            InOutputUnit(FNeg(CorrectionInFeet(NormalizedPressure)), args[3]))

\* A correction in flight levels that differs from the value it rounds
RoundedFlightLevel ==
    /\ QNHSucceeded
    /\ args[3] = "FL"
    /\ ret.correction # FDiv(CorrectionInFeet(NormalizedPressure), FromInt(100))

\* C16: at the standard pressure, 1013.25 hPa given in hPa, QNH.calculate
\* succeeds with correction 0, pressureAltitude 0 and no warning, in every
\* output unit.
StandardPressureZeroCorrection ==
    QNHOver /\ args[1] = FRound(4053, -2) /\ args[2] = "hPa" /\ args[3] \in OutputUnits =>
        /\ ~ret.error
        /\ ret.correction = Zero
        /\ ret.pressureAltitude = Zero
        /\ ~ret.warning

\* QNH.calculate(1013.25, 'hPa', 'meters') has returned
StandardPressureInMeters ==
    QNHSucceeded /\ args = <<FRound(4053, -2), "hPa", "meters">>

\* calculateDistance has returned for a start point and the destination that
\* calculateDestination gave for it
RoundTripOver == InverseOver /\ Len(args) = 6 /\ thrown = "none"

\* C18: from a start point that is no pole, the distance d > 0 and the bearing
\* t, calculateDistance on the start point and the destination returned by
\* calculateDestination gives the distance d again, here within an eighth of d.
RoundTripRecovers ==
    /\ RoundTripOver
    /\ MathAbs(args[1]) # FromInt(90)
    /\ FGt(args[5], Zero)
    => FLe(MathAbs(FSub(ret.distance, args[5])), FDiv(args[5], FromInt(8)))

\* calculateDistance has ended on two points after it had ended on the same
\* two in the other order
SwappedOver == InverseOver /\ Len(args) = 5

\* C19: calculateDistance on two points and on the same two in the other
\* order end alike, both with the Error, both with the coincident record or
\* both with a distance, and then with the same distance, here within an
\* eighth of it.
SwappedSameOutcome ==
    SwappedOver =>
        /\ (thrown = "none") = (args[5].thrown = "none")
        /\ thrown = "none" =>
              /\ ret.isCoincident = args[5].ret.isCoincident
              /\ FLe(MathAbs(FSub(ret.distance, args[5].ret.distance)),
                     FDiv(ret.distance, FromInt(8)))

\* C20: once a distance unit has been chosen in either selector, the two
\* selectors show the same unit and the keys range_unit_type and d_unit of
\* localStorage hold it.
LinkedUnitsStored ==
    ui.changed =>
        /\ ui.sel["range_unit_type"] = ui.sel["d_unit"]
        /\ ui.store["range_unit_type"] = ui.sel["range_unit_type"]
        /\ ui.store["d_unit"] = ui.sel["d_unit"]

\* C20, amended: once a distance unit has been chosen in either selector, the
\* two selectors show the same unit, and the keys range_unit_type and d_unit
\* of localStorage hold it if localStorage has taken both writes of the last
\* choice.
LinkedUnits ==
    ui.changed =>
        /\ ui.sel["range_unit_type"] = ui.sel["d_unit"]
        /\ ui.written = unitSelectors =>
              /\ ui.store["range_unit_type"] = ui.sel["range_unit_type"]
              /\ ui.store["d_unit"] = ui.sel["d_unit"]

\* The unit M has been chosen and localStorage has taken both writes
LinkedAfterChoice ==
    /\ ui.changed
    /\ ui.written = unitSelectors
    /\ ui.sel["range_unit_type"] = "M"
    /\ ui.store["d_unit"] = "M"

\* C23: after every pass of the loop of calculateDistance in which cosSqAlpha
\* is 0, the cos2SigmaM that the update of lambda and deltaSigma use is 0,
\* whatever sinU1 * sinU2 is.
EquatorialCos2SigmaMZero ==
    op = "inverse" /\ lastTest \notin {"none", "zero"} /\ inv.cosSqAlpha = Zero =>
        inv.cos2SigmaM = Zero

\* C24: calculateDestination runs the body of its loop at least once in
\* every call that returns a point, whatever the distance.
DirectBodyRunsOnce == DirectOver /\ thrown = "none" => bodies >= 1

\* C25: in every result of QNH.calculate, in each output unit,
\* pressureAltitude is the negation of correction, correction +
\* pressureAltitude = 0, a value halfway between two integers included.
PressureAltitudeNegatesCorrection ==
    QNHSucceeded => FAdd(ret.correction, ret.pressureAltitude) = Zero

\* c is a whole number
IsInteger(c) == c.k = "fin" /\ (c.e >= 0 \/ c.m % 2^(-c.e) = 0)

\* C26: every record QNH.calculate returns with error false has a whole number
\* for correction, a whole number for pressureAltitude and one of FL, ft and m
\* for unit, whatever string is passed as outputUnit.
SuccessRecordWellFormed ==
    QNHReturned =>
        /\ IsInteger(ret.correction)
        /\ IsInteger(ret.pressureAltitude)
        /\ ret.unit \in {"FL", "ft", "m"}

\* C22: once the install step has completed and the worker activates, every
\* asset of ASSETS_TO_CACHE is in the cache CACHE_NAME: the worker is never
\* activating or active with an asset missing.
ActiveWithAllAssets ==
    sw.state \in {"activating", "activated"} => ASSETS_TO_CACHE \subseteq sw.cache

\* The stored Range coordinates of now are those of the storage prev with
\* origin and destination exchanged
Exchanged(prev, now) ==
    /\ now["r_origin_lat_dd"] = prev["r_dest_lat_dd"]
    /\ now["r_origin_lon_dd"] = prev["r_dest_lon_dd"]
    /\ now["r_dest_lat_dd"] = prev["r_origin_lat_dd"]
    /\ now["r_dest_lon_dd"] = prev["r_origin_lon_dd"]

\* C21: whatever the four Range coordinates of the storage, a click of the
\* swap button leaves the stored origin equal to the destination stored before
\* and the stored destination equal to the origin stored before, changes no
\* other key, and a second click restores the stored coordinates.
SwapExchangesAnyStorage ==
    form.swaps # <<>> =>
        /\ Exchanged(form.swaps[Len(form.swaps)].store, form.store)
        /\ form.store["d_start_lat_dd"] = form.swaps[Len(form.swaps)].store["d_start_lat_dd"]
        /\ Len(form.swaps) = 2 => form.store = form.swaps[1].store

\* The click recorded in c found the four Range coordinates stored and had
\* its writes accepted
FullSwap(c) == c.accepted /\ \A key \in RangeCoords : c.store[key] # <<>>

\* C21 amended: when the four Range coordinates are stored and localStorage
\* accepts the writes, a click of the swap button exchanges the stored origin
\* and destination and a second click restores them; no click changes another
\* key.
SwapExchangesStored ==
    form.swaps # <<>> =>
        /\ FullSwap(form.swaps[Len(form.swaps)]) =>
              Exchanged(form.swaps[Len(form.swaps)].store, form.store)
        /\ form.store["d_start_lat_dd"] = form.swaps[Len(form.swaps)].store["d_start_lat_dd"]
        /\ Len(form.swaps) = 2 /\ FullSwap(form.swaps[1]) /\ FullSwap(form.swaps[2]) =>
              form.store = form.swaps[1].store

\* Two clicks of the swap button on four stored coordinates, the origin not
\* being the destination
SwappedTwice ==
    /\ Len(form.swaps) = 2
    /\ FullSwap(form.swaps[1])
    /\ FullSwap(form.swaps[2])
    /\ form.swaps[1].store["r_origin_lat_dd"] # form.swaps[1].store["r_dest_lat_dd"]
    /\ form.swaps[1].store["r_origin_lon_dd"] # form.swaps[1].store["r_dest_lon_dd"]

\* C27: whatever the order of the input events, the timers, the format
\* changes and the clicks, the coordinates a click of Calculate passes to
\* calculateDistance are those the four rows show at that moment, to the digits
\* the rows show (half a hundredth of a second is 12 units): a typed value is
\* not left out because its timer has not run out yet.
CalculatesOnShownCoords ==
    form.calc.kind = "called" =>
        \A i \in 1..4 :
            /\ form.calc.passed[i] - form.calc.shown[i] <= 12
            /\ form.calc.shown[i] - form.calc.passed[i] <= 12

\* C28: when localStorage is unavailable the probe has run once and no more,
\* and a click of Calculate on four rows in which the user has entered the
\* degrees, every timer having run out, still calls calculateDistance.
UnavailableStorageStillCalculates ==
    /\ form.probes <= 1
    /\ ~form.usable /\ form.calc.kind # "none" /\ form.pending = {}
           /\ (\A key \in RangeCoords : form.rows[key].d # Blank) =>
          form.calc.kind = "called"

\* C30: after init() and after any clicks of the tab buttons exactly one
\* button is active, no panel other than the one it names is active, and the
\* key active_tab of the storage holds the id of that panel.
OneActiveTabStored ==
    /\ Cardinality(tabs.activeBtns) = 1
    /\ tabs.activePanels \subseteq tabs.activeBtns
    /\ \A id \in tabs.activeBtns : tabs.stored = <<id>>

\* C30 amended: exactly one button is active, no panel other than the one it
\* names is active, and the key active_tab holds the id of that panel when
\* localStorage is available and has accepted the write of the last switch.
OneActiveTab ==
    /\ Cardinality(tabs.activeBtns) = 1
    /\ tabs.activePanels \subseteq tabs.activeBtns
    /\ tabs.written => \A id \in tabs.activeBtns : tabs.stored = <<id>>

\* The Destination tab has been clicked, its panel is active and its id stored
DestinationTabChosen ==
    /\ tabs.clicked
    /\ tabs.activeBtns = {"dest-panel"}
    /\ tabs.activePanels = {"dest-panel"}
    /\ tabs.written

\* The outcome of a call of the geodesy module is the outcome r of the first
\* revision: the same record, or an Error in both
SameOutcome(r) ==
    /\ ret = r.ret
    /\ (thrown = "none") = (r.thrown = "none")

\* The record of QNH.calculate agrees with the record r of the first revision
\* on error and, for a result, on warning, unit and correction
SameCorrection(r) ==
    /\ ret.error = r.error
    /\ ~ret.error =>
          /\ ret.warning = r.warning
          /\ ret.unit = r.unit
          /\ ret.correction = r.correction

\* C29: on the same arguments the first revisions, with their constants
\* written in the modules, and the revision with the shared constants end a
\* call in the same way: calculateDistance and calculateDestination with the
\* same record or with an Error in both, QNH.calculate with the same error,
\* warning, unit and correction.
RevisionsAgree ==
    /\ InverseOver => SameOutcome(Rev1CalculateDistance(args[1], args[2], args[3], args[4]))
    /\ DirectOver => SameOutcome(Rev1CalculateDestination(args[1], args[2], args[3], args[4]))
    /\ QNHOver => SameCorrection(Rev1Calculate(args[1], args[2], args[3]))

\* A call of calculateDistance that took more than one pass of the loop and
\* returned a distance
SeveralPassesDistance ==
    /\ InverseOver
    /\ thrown = "none"
    /\ ~ret.isCoincident
    /\ bodies >= 2
    /\ IsFinite(ret.distance)

====
